---- MODULE Spec2Model ----
(***************************************************************************)
(* A model of aaron-sql: tables derived from tagged Go structs, the        *)
(* Postgres and MariaDB dialect drivers, and Table.Sync / Drop / Insert /  *)
(* Update run against the live catalog of one database table.              *)
(*                                                                         *)
(* Go strings are TLA+ strings (sequences of characters): tag strings are  *)
(* parsed, names are lower-cased, sorted and truncated character by        *)
(* character, as the Go code does.  A Go map is a function whose DOMAIN is *)
(* the key set.                                                            *)
(***************************************************************************)
EXTENDS Integers, Sequences, FiniteSets, TLC

VARIABLES
    db,      \* the registered dialect handle (globalDBInstances[dbName])
    tbl,     \* the in-memory *Table under use, or NoTable
    live,    \* the database's catalog entry for the table name
    call,    \* the last call made: its name, inputs and returned error
    log,     \* the statements that call handed to db.Exec, in order
    pre,     \* the catalog entry as it was when that call started
    synced,  \* the Table whose Sync completed last with the catalog untouched since
    built,   \* how many Tables have been constructed
    rows,    \* the rows of the table in the database
    probe,   \* inputs and result of a pure function under test
    inflight \* the Sync calls that run side by side: where each one stands

vars == <<db, tbl, live, call, log, pre, synced, built, rows, probe, inflight>>

-----------------------------------------------------------------------------
(* Strings *)

Chr(s, i) == SubSeq(s, i, i)

\* ASCII order of the characters that occur in names, tags and type names.
Ascii == " ()*,0123456789:;ABCDEFGHIJKLMNOPQRSTUVWXYZ_abcdefghijklmnopqrstuvwxyz"

UpperLetters == "ABCDEFGHIJKLMNOPQRSTUVWXYZ"

LowerLetters == "abcdefghijklmnopqrstuvwxyz"

Digits == "0123456789"

RECURSIVE IndexFrom(_, _, _)
\* Least i >= from with s[i] = c, or 0.
IndexFrom(s, c, from) ==
    IF from > Len(s) THEN 0
    ELSE IF Chr(s, from) = c THEN from
    ELSE IndexFrom(s, c, from + 1)

IndexByte(s, c) == IndexFrom(s, c, 1)

HasPrefix(s, p) == Len(s) >= Len(p) /\ SubSeq(s, 1, Len(p)) = p

TrimPrefix(s, p) == IF HasPrefix(s, p) THEN SubSeq(s, Len(p) + 1, Len(s)) ELSE s

RECURSIVE TrimSpace(_)
TrimSpace(s) ==
    IF Len(s) = 0 THEN s
    ELSE IF Chr(s, 1) = " " THEN TrimSpace(SubSeq(s, 2, Len(s)))
    ELSE IF Chr(s, Len(s)) = " " THEN TrimSpace(SubSeq(s, 1, Len(s) - 1))
    ELSE s

RECURSIVE Split(_, _)
\* strings.Split(s, sep) for a one-character sep.
Split(s, sep) ==
    LET i == IndexByte(s, sep) IN
    IF i = 0 THEN <<s>>
    ELSE <<SubSeq(s, 1, i - 1)>> \o Split(SubSeq(s, i + 1, Len(s)), sep)

\* strings.SplitN(s, sep, 2)
SplitN2(s, sep) ==
    LET i == IndexByte(s, sep) IN
    IF i = 0 THEN <<s>>
    ELSE <<SubSeq(s, 1, i - 1), SubSeq(s, i + 1, Len(s))>>

RECURSIVE Join(_, _)
Join(ss, sep) ==
    IF Len(ss) = 0 THEN ""
    ELSE IF Len(ss) = 1 THEN ss[1]
    ELSE ss[1] \o sep \o Join(Tail(ss), sep)

LowerChr(c) ==
    LET i == IndexByte(UpperLetters, c) IN
    IF i = 0 THEN c ELSE Chr(LowerLetters, i)

RECURSIVE ToLowerBytes(_)
ToLowerBytes(s) ==
    IF Len(s) = 0 THEN s
    ELSE LowerChr(Chr(s, 1)) \o ToLowerBytes(SubSeq(s, 2, Len(s)))

\* The identifiers that recur in every run, lowered once.
LoweredOnce ==
    [s \in {"ID", "Name", "Age", "Note", "Email", "A", "B", "idx1", "Email_unique",
            "legacy", "legacy_idx", "id", "name", "age", "note", "email", "a", "b",
            "email_unique", "idx_TestUser_Age", "idx_testuser_age", "C", "c", "Code",
            "code", "Code_unique", "code_unique", "idx2"} |-> ToLowerBytes(s)]

\* strings.ToLower
ToLower(s) == IF s \in DOMAIN LoweredOnce THEN LoweredOnce[s] ELSE ToLowerBytes(s)

\* strings.EqualFold on ASCII names.
EqualFold(a, b) == ToLower(a) = ToLower(b)

RECURSIVE StrLess(_, _)
\* Go's < on strings: bytewise lexicographic.
StrLess(a, b) ==
    IF Len(b) = 0 THEN FALSE
    ELSE IF Len(a) = 0 THEN TRUE
    ELSE LET x == IndexByte(Ascii, Chr(a, 1))
             y == IndexByte(Ascii, Chr(b, 1))
         IN  IF x < y THEN TRUE
             ELSE IF x > y THEN FALSE
             ELSE StrLess(SubSeq(a, 2, Len(a)), SubSeq(b, 2, Len(b)))

RECURSIVE InsertSorted(_, _)
InsertSorted(s, sorted) ==
    IF Len(sorted) = 0 THEN <<s>>
    ELSE IF StrLess(s, sorted[1]) THEN <<s>> \o sorted
    ELSE <<sorted[1]>> \o InsertSorted(s, Tail(sorted))

RECURSIVE SortStrings(_)
\* sort.Strings
SortStrings(ss) ==
    IF Len(ss) = 0 THEN ss
    ELSE InsertSorted(ss[1], SortStrings(Tail(ss)))

RECURSIVE DigitsValue(_, _)
DigitsValue(s, acc) ==
    IF Len(s) = 0 THEN acc
    ELSE DigitsValue(SubSeq(s, 2, Len(s)), 10 * acc + (IndexByte(Digits, Chr(s, 1)) - 1))

AllDigits(s) == Len(s) > 0 /\ \A i \in 1..Len(s) : IndexByte(Digits, Chr(s, i)) # 0

\* strconv.Atoi: an optional sign, then decimal digits.
Atoi(s) ==
    LET signed == Len(s) > 0 /\ Chr(s, 1) \in {"-", "+"}
        body   == IF signed THEN SubSeq(s, 2, Len(s)) ELSE s
    IN  IF ~AllDigits(body) THEN [err |-> TRUE, val |-> 0]
        ELSE [err |-> FALSE,
              val |-> IF signed /\ Chr(s, 1) = "-"
                      THEN 0 - DigitsValue(body, 0) ELSE DigitsValue(body, 0)]

\* A Go map: read with a default for a missing key, write one key.
Has(m, k) == k \in DOMAIN m

Put(m, k, v) == [x \in DOMAIN m \cup {k} |-> IF x = k THEN v ELSE m[x]]

EmptyMap == [x \in {} |-> ""]

-----------------------------------------------------------------------------
(* Tags *)

TAG_IGNORE == "ignore"
TAG_NAME == "name"
TAG_UNIQUE == "unique"
TAG_INDEX == "index"
TAG_PRIMARY == "primary"
TAG_NULLABLE == "nullable"
TAG_AUTO_INCREMENT == "auto_increment"
TAG_ALLOW_ZERO == "allow_zero"
TAG_DEFAULT_PART_QUOTE == ";"
TAG_DEFAULT_KEY_VALUE_QUOTE == ":"

RECURSIVE ParseParts(_, _)
ParseParts(parts, tagMap) ==
    IF Len(parts) = 0 THEN tagMap
    ELSE LET part == TrimSpace(parts[1])
             kv   == SplitN2(part, TAG_DEFAULT_KEY_VALUE_QUOTE)
         IN  IF part = "" THEN ParseParts(Tail(parts), tagMap)
             ELSE IF Len(kv) = 2
                  THEN ParseParts(Tail(parts), Put(tagMap, kv[1], kv[2]))
                  ELSE ParseParts(Tail(parts), Put(tagMap, kv[1], ""))

parseTagString(tagStr) ==
    IF tagStr = "" THEN EmptyMap
    ELSE ParseParts(Split(tagStr, TAG_DEFAULT_PART_QUOTE), EmptyMap)

\* ok && (v == "" || v == "true" || v == "1")
TagTrue(tag, key) == Has(tag, key) /\ tag[key] \in {"", "true", "1"}

-----------------------------------------------------------------------------
(* Dialects *)

PostgresDB == "postgres"

MariaDB == "mariadb"

\* reflect.Kind of a field's type once a pointer is dereferenced; "bytes" is
\* []byte, "time" is time.Time, "slice" and "struct" are any other slice or struct.
Kinds == {"string", "int8", "int16", "int32", "int", "int64", "uint8", "uint16",
          "uint32", "uint", "uint64", "float32", "float64", "bool", "bytes",
          "time", "slice", "struct", "map"}

\* A Postgres switch that keeps an unsigned 32-bit integer in a 32-bit column.
PostgresSqlTypeSameWidth(kind) ==
    CASE kind = "string" -> "TEXT"
      [] kind \in {"int8", "int16", "uint8"} -> "SMALLINT"
      [] kind \in {"int32", "int", "uint16", "uint32", "uint"} -> "INTEGER"
      [] kind \in {"int64", "uint64"} -> "BIGINT"
      [] kind = "float32" -> "REAL"
      [] kind = "float64" -> "DOUBLE PRECISION"
      [] kind = "bool" -> "BOOLEAN"
      [] kind = "bytes" -> "BYTEA"
      [] kind = "time" -> "TIMESTAMP WITH TIME ZONE"
      [] OTHER -> ""

\* The switch on actualType.Kind() of the Postgres driver; "" is the error return.
PostgresSqlType(kind) ==
    CASE kind = "string" -> "TEXT"
      [] kind = "int8" -> "SMALLINT"
      [] kind = "int16" -> "SMALLINT"
      [] kind \in {"int32", "int"} -> "INTEGER"
      [] kind = "int64" -> "BIGINT"
      [] kind = "uint8" -> "SMALLINT"
      [] kind = "uint16" -> "INTEGER"
      [] kind \in {"uint32", "uint"} -> "BIGINT"
      [] kind = "uint64" -> "BIGINT"
      [] kind = "float32" -> "REAL"
      [] kind = "float64" -> "DOUBLE PRECISION"
      [] kind = "bool" -> "BOOLEAN"
      [] kind = "bytes" -> "BYTEA"
      [] kind = "time" -> "TIMESTAMP WITH TIME ZONE"
      [] OTHER -> ""

\* The switch on actualType.Kind() of the MariaDB driver; "" is the error return.
MariaDBSqlType(kind, tag) ==
    CASE kind = "string" ->
            IF Has(tag, "length") THEN "VARCHAR(" \o tag["length"] \o ")" ELSE "TEXT"
      [] kind = "int8" -> "TINYINT"
      [] kind = "int16" -> "SMALLINT"
      [] kind \in {"int32", "int"} -> "INT"
      [] kind = "int64" -> "BIGINT"
      [] kind = "uint8" -> "TINYINT UNSIGNED"
      [] kind = "uint16" -> "SMALLINT UNSIGNED"
      [] kind \in {"uint32", "uint"} -> "INT UNSIGNED"
      [] kind = "uint64" -> "BIGINT UNSIGNED"
      [] kind = "float32" -> "FLOAT"
      [] kind = "float64" -> "DOUBLE"
      [] kind = "bool" -> "BOOLEAN"
      [] kind = "bytes" -> "LONGBLOB"
      [] kind = "time" -> "DATETIME"
      [] OTHER -> ""

\* BaseColumn.IsAutoIncrement, which neither dialect's column type overrides.
IsAutoIncrement(col) == FALSE

\* BaseColumn.SetAutoIncrement: an empty body.
SetAutoIncrement(col, isAutoIncrement) == col

\* BaseColumn.SetNullable
SetNullable(col, nullable) == [col EXCEPT !.isNullable = nullable]

\* BaseColumn.SetPrimaryKey
SetPrimaryKey(col, isPrimaryKey) == [col EXCEPT !.isPrimaryKey = isPrimaryKey]

NoColumn == [name |-> ""]

\* PostgresDataBase.GetColumnDefinitionByType(fieldType, columnName, tag, isPointer);
\* fieldType is (kind, ptr).
PostgresColumnDefinition(kind, ptr, columnName, tag, isPointer) ==
    LET sqlType == PostgresSqlType(kind) IN
    IF sqlType = "" THEN [err |-> TRUE, col |-> NoColumn]
    ELSE [err |-> FALSE,
          col |-> [name          |-> IF Has(tag, TAG_NAME) THEN tag[TAG_NAME] ELSE columnName,
                   sqlType       |-> sqlType,
                   defaultString |-> IF Has(tag, "default") THEN tag["default"] ELSE "",
                   isPointer     |-> isPointer \/ ptr,
                   isNullable    |-> TagTrue(tag, TAG_NULLABLE),
                   isPrimaryKey  |-> TagTrue(tag, TAG_PRIMARY),
                   isUnique      |-> TagTrue(tag, TAG_UNIQUE),
                   isIndex       |-> TagTrue(tag, TAG_INDEX),
                   isAllowZero   |-> TagTrue(tag, TAG_ALLOW_ZERO),
                   tags          |-> tag]]

\* MariaDBDataBase.GetColumnDefinitionByType
MariaDBColumnDefinition(kind, ptr, columnName, tag, isPointer) ==
    LET sqlType  == MariaDBSqlType(kind, tag)
        byTag    == IF TagTrue(tag, TAG_NULLABLE) THEN TRUE
                    ELSE IF Has(tag, TAG_NULLABLE) /\ tag[TAG_NULLABLE] \in {"false", "0"}
                         THEN FALSE
                         ELSE isPointer
        primary  == TagTrue(tag, TAG_PRIMARY)
        col      == [name          |-> IF Has(tag, TAG_NAME) THEN tag[TAG_NAME] ELSE columnName,
                     sqlType       |-> sqlType,
                     defaultString |-> IF Has(tag, "default") THEN tag["default"] ELSE "",
                     isPointer     |-> isPointer \/ ptr,
                     isNullable    |-> IF primary THEN FALSE ELSE byTag,
                     isPrimaryKey  |-> primary,
                     isUnique      |-> TagTrue(tag, TAG_UNIQUE),
                     isIndex       |-> TagTrue(tag, TAG_INDEX),
                     isAllowZero   |-> TagTrue(tag, TAG_ALLOW_ZERO),
                     tags          |-> tag]
    IN  IF sqlType = "" THEN [err |-> TRUE, col |-> NoColumn]
        ELSE [err |-> FALSE,
              col |-> SetAutoIncrement(col, TagTrue(tag, TAG_AUTO_INCREMENT))]

GetColumnDefinitionByType(d, kind, ptr, columnName, tag, isPointer) ==
    IF d.name = PostgresDB
    THEN PostgresColumnDefinition(kind, ptr, columnName, tag, isPointer)
    ELSE MariaDBColumnDefinition(kind, ptr, columnName, tag, isPointer)

-----------------------------------------------------------------------------
(* Indexes *)

IndexLimit == 64

\* A NewTableIndex that keeps the columns in the order given.
NewTableIndexAsGiven(name, cols, unique) ==
    [name |-> name, columns |-> cols, isUnique |-> unique]

\* NewTableIndex(table, name, cols, unique); the table is held by the Table
\* record that owns the index.
NewTableIndex(name, cols, unique) ==
    [name |-> name, columns |-> SortStrings(cols), isUnique |-> unique]

\* TableIndex.Name for an index of table t: i.table.ConstructType().Name() is
\* the name of the Go struct type the table was built from.
IndexName(t, i) ==
    IF i.name # "" THEN i.name
    ELSE LET idxName == "idx_" \o t.structType \o "_" \o i.columns[1] IN
         IF Len(idxName) > IndexLimit THEN SubSeq(idxName, 1, IndexLimit) ELSE idxName

\* TableIndex.IsIdentical(columns...)
IsIdentical(i, columns) ==
    /\ Len(i.columns) = Len(columns)
    /\ LET sorted == SortStrings(columns) IN
       \A j \in 1..Len(i.columns) : i.columns[j] = sorted[j]

-----------------------------------------------------------------------------
(* Building a Table from a struct *)

NoTable ==
    [name |-> "", structType |-> "", columns |-> <<>>, indexes |-> <<>>,
     extraOptions |-> EmptyMap]

Perms(S) ==
    {p \in [1..Cardinality(S) -> S] : \A i, j \in 1..Cardinality(S) : i # j => p[i] # p[j]}

RECURSIVE KeysOf(_)
\* The keys of a map as a slice, in one iteration order.
KeysOf(m) ==
    IF DOMAIN m = {} THEN <<>>
    ELSE LET k == CHOOSE x \in DOMAIN m : TRUE IN
         <<k>> \o KeysOf([x \in DOMAIN m \ {k} |-> m[x]])

RECURSIVE PrioritySort(_, _, _, _)
\* The two nested loops of constructIndex that swap cols[i] and cols[j]
\* when cols[i] has the lower priority.
PrioritySort(cols, colMap, i, j) ==
    IF i > Len(cols) THEN cols
    ELSE IF j > Len(cols) THEN PrioritySort(cols, colMap, i + 1, i + 2)
    ELSE IF colMap[cols[i]] < colMap[cols[j]]
         THEN PrioritySort([cols EXCEPT ![i] = cols[j], ![j] = cols[i]], colMap, i, j + 1)
         ELSE PrioritySort(cols, colMap, i, j + 1)

RECURSIVE IndexTagParts(_, _)
\* The loop over strings.Split(indexTag, ","): the index name and priority.
IndexTagParts(parts, acc) ==
    IF Len(parts) = 0 \/ acc.err THEN acc
    ELSE IF HasPrefix(parts[1], "priority:")
         THEN LET n == Atoi(TrimPrefix(parts[1], "priority:")) IN
              IndexTagParts(Tail(parts),
                            [acc EXCEPT !.err = n.err, !.priority = n.val])
         ELSE IndexTagParts(Tail(parts), [acc EXCEPT !.idxName = parts[1]])

\* indexNameAndColsAndPriority[idxName] = map[string]int{col.Name(): priority}
SetIndexEntry(byName, idxName, colName, priority) ==
    Put(byName, idxName, [c \in {colName} |-> priority])

RECURSIVE IndexColumns(_, _)
\* The first loop of constructIndex, over t.columns.
IndexColumns(columns, acc) ==
    IF Len(columns) = 0 \/ acc.err THEN acc
    ELSE LET col  == columns[1]
             tags == col.tags
             p    == IF Has(tags, TAG_INDEX)
                     THEN IndexTagParts(Split(tags[TAG_INDEX], ","),
                                        [err |-> FALSE, idxName |-> "", priority |-> 0])
                     ELSE [err |-> FALSE, idxName |-> "", priority |-> 0]
             nm   == IF p.idxName = "" THEN col.name \o "_index" ELSE p.idxName
             inds == IF Has(tags, TAG_UNIQUE) /\ tags[TAG_UNIQUE] \in {"true", "1"}
                     THEN Append(acc.indexs,
                                 NewTableIndex(col.name \o "_unique", <<col.name>>, TRUE))
                     ELSE acc.indexs
         IN  IF p.err THEN [acc EXCEPT !.err = TRUE]
             ELSE IndexColumns(Tail(columns),
                     [err    |-> FALSE,
                      indexs |-> inds,
                      byName |-> IF Has(tags, TAG_INDEX)
                                 THEN SetIndexEntry(acc.byName, nm, col.name, p.priority)
                                 ELSE acc.byName])

IndexGroups(columns) ==
    IndexColumns(columns, [err |-> FALSE, indexs |-> <<>>, byName |-> EmptyMap])

\* The second loop of constructIndex; order is the order in which Go ranges
\* over the map of index names.
NamedIndexes(byName, order) ==
    [n \in 1..Len(order) |->
        NewTableIndex(order[n],
                      PrioritySort(KeysOf(byName[order[n]]), byName[order[n]], 1, 2),
                      FALSE)]

\* Table.constructIndex
constructIndex(columns, order) ==
    LET g == IndexGroups(columns) IN
    IF g.err THEN [err |-> TRUE, indexes |-> <<>>]
    ELSE [err |-> FALSE, indexes |-> g.indexs \o NamedIndexes(g.byName, order)]

RECURSIVE StructColumns(_, _, _)
\* The loop of NewTableFromStructWithDB over the struct's fields.
StructColumns(d, fields, acc) ==
    IF Len(fields) = 0 \/ acc.err THEN acc
    ELSE LET field == fields[1]
             tags  == parseTagString(field.tag)
             def   == GetColumnDefinitionByType(d, field.kind, field.ptr, field.name,
                                                tags, field.ptr)
         IN  IF field.tag = "" \/ Has(tags, TAG_IGNORE)
             THEN StructColumns(d, Tail(fields), acc)
             ELSE IF def.err THEN [acc EXCEPT !.err = TRUE, !.named = <<field.name>>]
             ELSE StructColumns(d, Tail(fields),
                                [acc EXCEPT !.cols = Append(acc.cols, def.col)])

\* The index names constructIndex will range over for struct s.
IndexNamesOf(d, s) ==
    LET c == StructColumns(d, s.fields, [err |-> FALSE, cols |-> <<>>, named |-> <<>>]) IN
    IF c.err THEN {} ELSE DOMAIN IndexGroups(c.cols).byName

\* NewTableFromStructWithDB(s, name, dbName); named lists the fields the
\* returned error names.
NewTableFromStructWithDB(d, s, name, order) ==
    LET c   == StructColumns(d, s.fields, [err |-> FALSE, cols |-> <<>>, named |-> <<>>])
        idx == constructIndex(c.cols, order)
    IN  IF c.err THEN [err |-> TRUE, table |-> NoTable, named |-> c.named]
        ELSE IF idx.err THEN [err |-> TRUE, table |-> NoTable, named |-> <<>>]
        ELSE [err   |-> FALSE,
              named |-> <<>>,
              table |-> [name       |-> name,
                         structType |-> s.name,
                         columns    |-> c.cols,
                         indexes    |-> idx.indexes,
                         extraOptions |-> EmptyMap]]

\* An addIndexWithName that takes an index of the other kind over the same
\* columns for a different index.
addIndexWithNameByKind(t, name, unique, cols) ==
    IF \E i \in 1..Len(t.indexes) :
          IsIdentical(t.indexes[i], cols) /\ t.indexes[i].isUnique = unique
    THEN [ok |-> FALSE, table |-> t]
    ELSE [ok    |-> TRUE,
          table |-> [t EXCEPT !.indexes = Append(@, NewTableIndex(name, cols, unique))]]

\* Table.addIndexWithName(name, unique, cols...)
addIndexWithName(t, name, unique, cols) ==
    IF \E i \in 1..Len(t.indexes) : IsIdentical(t.indexes[i], cols)
    THEN [ok |-> FALSE, table |-> t]
    ELSE [ok    |-> TRUE,
          table |-> [t EXCEPT !.indexes = Append(@, NewTableIndex(name, cols, unique))]]

\* Table.AddIndex(unique, cols...)
AddIndex(t, unique, cols) == addIndexWithName(t, "", unique, cols)

\* Table.GetExtra: a copy of t.extraOptions; the Table keeps its own map.
GetExtra(t) == [table |-> t, result |-> t.extraOptions]

\* Table.SetExtra(kvdata): every pair of kvdata is copied into t.extraOptions.
SetExtra(t, kvdata) ==
    [t EXCEPT !.extraOptions =
        [k \in DOMAIN @ \cup DOMAIN kvdata |-> IF k \in DOMAIN kvdata THEN kvdata[k] ELSE @[k]]]

\* Table.PrimaryColumns
PrimaryColumns(t) == SelectSeq(t.columns, LAMBDA c : c.isPrimaryKey)

-----------------------------------------------------------------------------
(* Statements.  A statement is the SQL text a template renders, kept as its *)
(* parts: the verb, the object it names and the clauses filled in.          *)

Stmt(op, name, type, cols, unique, clauses, pk) ==
    [op |-> op, name |-> name, type |-> type, cols |-> cols, unique |-> unique,
     clauses |-> clauses, pk |-> pk]

\* One column clause of CREATE TABLE: name type [NOT NULL] [DEFAULT x] [AUTO_INCREMENT]
Clause(d, col) ==
    [name    |-> col.name,
     type    |-> col.sqlType,
     notNull |-> ~col.isNullable,
     default |-> col.defaultString,
     autoInc |-> d.name = MariaDB /\ IsAutoIncrement(col)]

\* GetCreateTableSQL(tableName, columns) of either driver
GetCreateTableSQL(d, tableName, columns) ==
    Stmt("CREATE TABLE", tableName, "", <<>>, FALSE,
         [n \in 1..Len(columns) |-> Clause(d, columns[n])],
         [n \in 1..Len(SelectSeq(columns, LAMBDA c : c.isPrimaryKey)) |->
             SelectSeq(columns, LAMBDA c : c.isPrimaryKey)[n].name])

\* DropTableSql(tableName): DROP TABLE IF EXISTS
DropTableSql(d, tableName) == Stmt("DROP TABLE", tableName, "", <<>>, FALSE, <<>>, <<>>)

\* CreateIndexSqlTemplate with CREATE INDEX replaced by CREATE UNIQUE INDEX for
\* a unique index, and the index's name and columns filled in.
CreateIndexSql(t, index) ==
    Stmt("CREATE INDEX", IndexName(t, index), "", index.columns, index.isUnique, <<>>, <<>>)

\* DropIndexSqlTemplate
DropIndexSql(t, index) == Stmt("DROP INDEX", index.name, "", <<>>, FALSE, <<>>, <<>>)

\* CreateColumnSqlTemplate: ALTER TABLE t ADD COLUMN name type
CreateColumnSql(col) == Stmt("ADD COLUMN", col.name, col.sqlType, <<>>, FALSE, <<>>, <<>>)

\* UpdateColumnSqlTemplate: ALTER COLUMN name SET DATA TYPE type / MODIFY COLUMN name type
UpdateColumnSql(col) == Stmt("ALTER COLUMN", col.name, col.sqlType, <<>>, FALSE, <<>>, <<>>)

-----------------------------------------------------------------------------
(* The database: the catalog entry of the one table name, and what the      *)
(* server does with each statement.                                          *)

NoLive == [exists |-> FALSE, cols |-> EmptyMap, idxs |-> EmptyMap]

\* information_schema.columns.udt_name for a column declared with this type.
PostgresUdtName(sqlType) ==
    CASE sqlType = "TEXT" -> "text"
      [] sqlType = "SMALLINT" -> "int2"
      [] sqlType = "INTEGER" -> "int4"
      [] sqlType = "BIGINT" -> "int8"
      [] sqlType = "REAL" -> "float4"
      [] sqlType = "DOUBLE PRECISION" -> "float8"
      [] sqlType = "BOOLEAN" -> "bool"
      [] sqlType = "BYTEA" -> "bytea"
      [] sqlType = "TIMESTAMP WITH TIME ZONE" -> "timestamptz"
      [] OTHER -> ToLower(sqlType)

\* INFORMATION_SCHEMA.COLUMNS.DATA_TYPE: the base type in lower case, without
\* length or UNSIGNED; BOOLEAN is stored as tinyint.
MariaDBDataType(sqlType) ==
    LET paren == IndexByte(sqlType, "(")
        space == IndexByte(sqlType, " ")
        cut   == IF paren # 0 THEN paren ELSE space
        base  == IF cut = 0 THEN sqlType ELSE SubSeq(sqlType, 1, cut - 1)
    IN  IF base = "BOOLEAN" THEN "tinyint" ELSE ToLower(base)

CatalogType(d, sqlType) ==
    IF d.name = PostgresDB THEN PostgresUdtName(sqlType) ELSE MariaDBDataType(sqlType)

\* The name the catalog stores: Postgres folds an unquoted identifier to lower
\* case; MariaDB keeps a back-quoted identifier as written.
Stored(d, name) == IF d.name = PostgresDB THEN ToLower(name) ELSE name

\* The stored key an identifier resolves to, or "": Postgres looks up the folded
\* name, MariaDB compares column and index names without regard to case.
Resolve(d, m, name) ==
    IF d.name = PostgresDB
    THEN (IF ToLower(name) \in DOMAIN m THEN ToLower(name) ELSE "")
    ELSE (IF \E k \in DOMAIN m : EqualFold(k, name)
          THEN CHOOSE k \in DOMAIN m : EqualFold(k, name) ELSE "")

Distinct(d, names) ==
    \A i, j \in 1..Len(names) : i # j => ~EqualFold(names[i], names[j])

\* A server that takes CREATE TABLE for a table that is there as done.
ExecCreateTableIfNotExists(d, L, stmt) ==
    LET names == [n \in 1..Len(stmt.clauses) |-> stmt.clauses[n].name]
        isPk(c) == \E n \in 1..Len(stmt.pk) : stmt.pk[n] = c.name
        cols  == [k \in {Stored(d, names[n]) : n \in 1..Len(names)} |->
                    LET c == stmt.clauses[CHOOSE n \in 1..Len(names) : Stored(d, names[n]) = k]
                    IN  [type     |-> CatalogType(d, c.type),
                         nullable |-> ~c.notNull /\ ~isPk(c),
                         default  |-> c.default,
                         pk       |-> isPk(c),
                         autoInc  |-> c.autoInc]]
    IN  IF L.exists THEN [ok |-> TRUE, live |-> L]
        ELSE [ok |-> TRUE, live |-> [exists |-> TRUE, cols |-> cols, idxs |-> EmptyMap]]

ExecCreateTable(d, L, stmt) ==
    LET names == [n \in 1..Len(stmt.clauses) |-> stmt.clauses[n].name]
        ok    == /\ ~L.exists
                 /\ Distinct(d, names)
                 /\ (d.name = MariaDB => Len(stmt.clauses) > 0)
        isPk(c) == \E n \in 1..Len(stmt.pk) : stmt.pk[n] = c.name
        cols  == [k \in {Stored(d, names[n]) : n \in 1..Len(names)} |->
                    LET c == stmt.clauses[CHOOSE n \in 1..Len(names) : Stored(d, names[n]) = k]
                    IN  [type     |-> CatalogType(d, c.type),
                         nullable |-> ~c.notNull /\ ~isPk(c),
                         default  |-> c.default,
                         pk       |-> isPk(c),
                         autoInc  |-> c.autoInc]]
    IN  IF ok THEN [ok |-> TRUE, live |-> [exists |-> TRUE, cols |-> cols, idxs |-> EmptyMap]]
        ELSE [ok |-> FALSE, live |-> L]

\* Postgres renders CREATE INDEX IF NOT EXISTS, MariaDB a plain CREATE INDEX.
ExecCreateIndex(d, L, stmt) ==
    LET cols  == [n \in 1..Len(stmt.cols) |-> Resolve(d, L.cols, stmt.cols[n])]
        have  == Resolve(d, L.idxs, stmt.name) # ""
        ok    == /\ L.exists
                 /\ Len(cols) > 0
                 /\ \A n \in 1..Len(cols) : cols[n] # ""
                 /\ (d.name = MariaDB => ~have)
    IN  IF ~ok THEN [ok |-> FALSE, live |-> L]
        ELSE IF have THEN [ok |-> TRUE, live |-> L]
        ELSE [ok |-> TRUE,
              live |-> [L EXCEPT !.idxs = Put(L.idxs, Stored(d, stmt.name),
                                              [columns |-> cols, unique |-> stmt.unique])]]

\* Postgres renders DROP INDEX IF EXISTS, MariaDB a plain DROP INDEX ... ON.
ExecDropIndex(d, L, stmt) ==
    LET k == Resolve(d, L.idxs, stmt.name) IN
    IF k = "" THEN [ok |-> d.name = PostgresDB, live |-> L]
    ELSE [ok |-> TRUE,
          live |-> [L EXCEPT !.idxs = [x \in DOMAIN L.idxs \ {k} |-> L.idxs[x]]]]

\* ADD COLUMN name type: the new column is nullable and has no default.
ExecAddColumn(d, L, stmt) ==
    IF ~L.exists \/ Resolve(d, L.cols, stmt.name) # "" THEN [ok |-> FALSE, live |-> L]
    ELSE [ok |-> TRUE,
          live |-> [L EXCEPT !.cols = Put(L.cols, Stored(d, stmt.name),
                                          [type     |-> CatalogType(d, stmt.type),
                                           nullable |-> TRUE,
                                           default  |-> "",
                                           pk       |-> FALSE,
                                           autoInc  |-> FALSE])]]

\* Postgres SET DATA TYPE changes the type alone; MariaDB MODIFY COLUMN
\* redefines the column from the clause given, which names only a type.
ExecAlterColumn(d, L, stmt) ==
    LET k == Resolve(d, L.cols, stmt.name) IN
    IF ~L.exists \/ k = "" THEN [ok |-> FALSE, live |-> L]
    ELSE [ok |-> TRUE,
          live |-> [L EXCEPT !.cols[k] =
                      IF d.name = PostgresDB
                      THEN [@ EXCEPT !.type = CatalogType(d, stmt.type)]
                      ELSE [type     |-> CatalogType(d, stmt.type),
                            nullable |-> ~@.pk,
                            default  |-> "",
                            pk       |-> @.pk,
                            autoInc  |-> FALSE]]]

\* db.Exec(ddl): whether the statement succeeds and the catalog after it.
Exec(d, L, stmt) ==
    CASE stmt.op = "CREATE TABLE" -> ExecCreateTable(d, L, stmt)
      [] stmt.op = "DROP TABLE" -> [ok |-> TRUE, live |-> NoLive]
      [] stmt.op = "CREATE INDEX" -> ExecCreateIndex(d, L, stmt)
      [] stmt.op = "DROP INDEX" -> ExecDropIndex(d, L, stmt)
      [] stmt.op = "ADD COLUMN" -> ExecAddColumn(d, L, stmt)
      [] stmt.op = "ALTER COLUMN" -> ExecAlterColumn(d, L, stmt)
      [] OTHER -> [ok |-> TRUE, live |-> L]

-----------------------------------------------------------------------------
(* Introspection and Sync *)

\* A GetTableDDL that reports a missing table as an error.
GetTableDDLMissingIsError(L) ==
    [err |-> DOMAIN L.cols = {}, found |-> DOMAIN L.cols # {},
     columns |-> {[name          |-> k,
                   sqlType       |-> L.cols[k].type,
                   isNullable    |-> L.cols[k].nullable,
                   defaultString |-> L.cols[k].default,
                   isPrimaryKey  |-> FALSE] : k \in DOMAIN L.cols},
     indexes |-> EmptyMap]

\* PostgresDataBase.GetTableDDL: the columns of information_schema.columns;
\* table.indexes is left empty.  found = FALSE is the (nil, nil) return.
PostgresGetTableDDL(L) ==
    IF DOMAIN L.cols = {} THEN [err |-> FALSE, found |-> FALSE, columns |-> {}, indexes |-> EmptyMap]
    ELSE [err     |-> FALSE,
          found   |-> TRUE,
          columns |-> {[name          |-> k,
                        sqlType       |-> L.cols[k].type,
                        isNullable    |-> L.cols[k].nullable,
                        defaultString |-> L.cols[k].default,
                        isPrimaryKey  |-> FALSE] : k \in DOMAIN L.cols},
          indexes |-> EmptyMap]

\* MariaDBDataBase.GetTableDDL: columns, then the indexes of
\* INFORMATION_SCHEMA.STATISTICS other than PRIMARY, keyed by name.
MariaDBGetTableDDL(L) ==
    IF DOMAIN L.cols = {} THEN [err |-> FALSE, found |-> FALSE, columns |-> {}, indexes |-> EmptyMap]
    ELSE [err     |-> FALSE,
          found   |-> TRUE,
          columns |-> {[name          |-> k,
                        sqlType       |-> L.cols[k].type,
                        isNullable    |-> L.cols[k].nullable,
                        defaultString |-> L.cols[k].default,
                        isPrimaryKey  |-> L.cols[k].pk] : k \in DOMAIN L.cols},
          indexes |-> [k \in DOMAIN L.idxs |->
                          [name     |-> k,
                           columns  |-> L.idxs[k].columns,
                           isUnique |-> L.idxs[k].unique]]]

GetTableDDL(d, L) ==
    IF d.name = PostgresDB THEN PostgresGetTableDDL(L) ELSE MariaDBGetTableDDL(L)

RECURSIVE Flatten(_)
Flatten(ss) == IF Len(ss) = 0 THEN <<>> ELSE ss[1] \o Flatten(Tail(ss))

\* Sync, table absent: CREATE TABLE, then one statement per index of t.indexes.
CreatePlan(d, t) ==
    <<GetCreateTableSQL(d, t.name, t.columns)>>
        \o [n \in 1..Len(t.indexes) |-> CreateIndexSql(t, t.indexes[n])]

\* A name comparison that disregards letter case under every dialect.
SameColumnNameFolded(d, a, b) == EqualFold(a, b)

\* The name comparison of Sync: EqualFold under Postgres, == otherwise.
SameColumnName(d, a, b) == IF d.name = PostgresDB THEN EqualFold(a, b) ELSE a = b

\* A column step that replaces a differing column instead of altering it.
ColumnPlanDropAndAdd(d, exist, newCol) ==
    LET found == {c \in exist.columns : SameColumnName(d, c.name, newCol.name)} IN
    IF found = {} THEN <<CreateColumnSql(newCol)>>
    ELSE <<Stmt("DROP COLUMN", newCol.name, "", <<>>, FALSE, <<>>, <<>>),
           CreateColumnSql(newCol)>>

\* Sync, table present, one desired column: ADD COLUMN when no live column
\* matches, the alter statement when the matched one differs.
ColumnPlan(d, exist, newCol) ==
    LET found == {c \in exist.columns : SameColumnName(d, c.name, newCol.name)} IN
    IF found = {} THEN <<CreateColumnSql(newCol)>>
    ELSE LET existingCol == CHOOSE c \in found : TRUE IN
         IF \/ existingCol.sqlType # newCol.sqlType
            \/ existingCol.isNullable # newCol.isNullable
            \/ existingCol.defaultString # newCol.defaultString
         THEN <<UpdateColumnSql(newCol)>>
         ELSE <<>>

\* Sync, table present, one desired index against existingIndexMap.
IndexPlan(t, exist, newIndex) ==
    IF ~Has(exist.indexes, IndexName(t, newIndex)) THEN <<CreateIndexSql(t, newIndex)>>
    ELSE LET existingIdx == exist.indexes[IndexName(t, newIndex)] IN
         IF ~IsIdentical(existingIdx, newIndex.columns)
               \/ existingIdx.isUnique # newIndex.isUnique
         THEN <<DropIndexSql(t, existingIdx), CreateIndexSql(t, newIndex)>>
         ELSE <<>>

IndexesPlan(t, exist) ==
    Flatten([n \in 1..Len(t.indexes) |-> IndexPlan(t, exist, t.indexes[n])])

\* Sync, table present: the loop over t.columns, whose body ends with the
\* loop over t.indexes.
ConvergePlan(d, t, exist) ==
    Flatten([n \in 1..Len(t.columns) |->
                ColumnPlan(d, exist, t.columns[n]) \o IndexesPlan(t, exist)])

\* The statements Sync goes on to execute, decided from the introspected table.
SyncPlan(d, t, exist) ==
    IF ~exist.found THEN CreatePlan(d, t) ELSE ConvergePlan(d, t, exist)

RECURSIVE RunStmtsPastErrors(_, _, _, _, _)
\* A run that notes an error and goes on with the statements that remain.
RunStmtsPastErrors(d, L, plan, failAt, issued) ==
    IF Len(plan) = 0 THEN [err |-> FALSE, live |-> L, issued |-> issued]
    ELSE LET r    == Exec(d, L, plan[1])
             bad  == Len(issued) + 1 = failAt \/ ~r.ok
             rest == RunStmtsPastErrors(d, IF bad THEN L ELSE r.live, Tail(plan), failAt,
                                        Append(issued, plan[1]))
         IN  [rest EXCEPT !.err = bad \/ rest.err]

RECURSIVE RunStmts(_, _, _, _, _)
\* Exec the statements in order and stop at the first error.  failAt numbers
\* the statement the driver refuses for a reason of its own (0: none).
RunStmts(d, L, plan, failAt, issued) ==
    IF Len(plan) = 0 THEN [err |-> FALSE, live |-> L, issued |-> issued]
    ELSE LET r == Exec(d, L, plan[1]) IN
         IF Len(issued) + 1 = failAt \/ ~r.ok
         THEN [err |-> TRUE, live |-> L, issued |-> Append(issued, plan[1])]
         ELSE RunStmts(d, r.live, Tail(plan), failAt, Append(issued, plan[1]))

\* Table.Sync
SyncResult(d, t, L, failAt) ==
    LET exist == GetTableDDL(d, L) IN
    IF exist.err THEN [err |-> TRUE, live |-> L, issued |-> <<>>]
    ELSE RunStmts(d, L, SyncPlan(d, t, exist), failAt, <<>>)

\* The Table after Sync.  Sync assigns to no field of t, but where the index
\* exists it calls existingIdx.IsIdentical(newIndex.columns...), which sorts
\* the slice it is handed in place once the lengths agree, and that slice is
\* the column slice of the Table's own index.  r is the result of the pass:
\* an index is compared when no statement before it in the first column's
\* round has failed.
SyncedTable(d, t, L, r) ==
    LET exist     == GetTableDDL(d, L)
        before(n) == Len(ColumnPlan(d, exist, t.columns[1]))
                        + Len(Flatten([m \in 1..(n - 1) |-> IndexPlan(t, exist, t.indexes[m])]))
        compared(n) ==
            /\ ~exist.err
            /\ exist.found
            /\ Len(t.columns) > 0
            /\ Has(exist.indexes, IndexName(t, t.indexes[n]))
            /\ Len(exist.indexes[IndexName(t, t.indexes[n])].columns) = Len(t.indexes[n].columns)
            /\ (~r.err \/ Len(r.issued) > before(n))
    IN  [t EXCEPT !.indexes =
            [n \in 1..Len(t.indexes) |->
                IF compared(n) THEN [t.indexes[n] EXCEPT !.columns = SortStrings(@)]
                ELSE t.indexes[n]]]

\* A Drop that has nothing to say to the server when the table is not there.
DropResultOnlyIfPresent(d, t, L, failAt) ==
    IF L.exists THEN RunStmts(d, L, <<DropTableSql(d, t.name)>>, failAt, <<>>)
    ELSE [err |-> FALSE, live |-> L, issued |-> <<>>]

\* Table.Drop
DropResult(d, t, L, failAt) == RunStmts(d, L, <<DropTableSql(d, t.name)>>, failAt, <<>>)

-----------------------------------------------------------------------------
(* The structs tables are built from *)

MaxTables == 2

MaxFailAt == 2

Field(name, kind, ptr, tag) == [name |-> name, kind |-> kind, ptr |-> ptr, tag |-> tag]

\* Fields a model struct may declare, in declaration order.
FieldCatalog ==
    <<Field("ID", "int64", FALSE, "primary;auto_increment"),
      Field("Name", "string", FALSE, "unique"),
      Field("Age", "int", FALSE, "nullable"),
      Field("Note", "string", FALSE, "nullable"),
      Field("Email", "string", FALSE, "length:255;unique:true"),
      Field("A", "int32", FALSE, "index:idx1,priority:2"),
      Field("B", "int32", FALSE, "index:idx1,priority:5"),
      Field("Plain", "string", FALSE, ""),
      Field("Secret", "string", FALSE, "ignore"),
      Field("Tags", "map", FALSE, "nullable"),
      Field("Items", "slice", FALSE, "length:10"),
      Field("Code", "string", FALSE, "unique:1"),
      Field("Nick", "string", FALSE, "unique:false"),
      Field("Rank", "int32", FALSE, "index:idx2,priority:x"),
      Field("C", "int32", FALSE, "index:idx2"),
      Field("D", "string", FALSE, "unique:true;index:idx3")>>

RECURSIVE Pick(_, _)
\* The fields of the catalog whose positions are in S, in declaration order.
Pick(S, n) ==
    IF n > Len(FieldCatalog) THEN <<>>
    ELSE (IF n \in S THEN <<FieldCatalog[n]>> ELSE <<>>) \o Pick(S, n + 1)

\* The field sets of the structs under study: TestDebugUser (ID, Name, Age),
\* what it grows from and into, and structs with declared indexes.
Shapes == {{1}, {1, 2}, {1, 2, 3}, {1, 2, 3, 4}, {1, 5}, {1, 6}, {1, 6, 7}}

StructTypes == {[name |-> "TestUser", fields |-> Pick(S, 1)] : S \in Shapes}

TableName == "test_users"

Dialects == {[name |-> PostgresDB, canInsert |-> TRUE, canUpdate |-> TRUE, canRows |-> TRUE],
             [name |-> MariaDB, canInsert |-> TRUE, canUpdate |-> TRUE, canRows |-> TRUE]}

\* DDL another client of the database may run on the same table name.
OtherClientStmts ==
    {Stmt("CREATE TABLE", TableName, "", <<>>, FALSE,
          <<[name |-> "legacy", type |-> "TEXT", notNull |-> FALSE, default |-> "",
             autoInc |-> FALSE]>>, <<>>),
     Stmt("ADD COLUMN", "legacy", "TEXT", <<>>, FALSE, <<>>, <<>>),
     Stmt("CREATE INDEX", "legacy_idx", "", <<"legacy">>, FALSE, <<>>, <<>>),
     Stmt("CREATE INDEX", "idx1", "", <<"legacy">>, TRUE, <<>>, <<>>)}

\* The index-name iteration orders constructIndex may take for struct s.
Orders ==
    [x \in Dialects \X StructTypes |-> Perms(IndexNamesOf(x[1], x[2]))]

\* What NewTableFromStructWithDB returns for each dialect, struct and order.
Constructed ==
    [x \in UNION {{<<d, s, o>> : o \in Orders[<<d, s>>]} : <<d, s>> \in Dialects \X StructTypes} |->
        NewTableFromStructWithDB(x[1], x[2], TableName, x[3])]

NoCall == [name |-> "none", err |-> FALSE, found |-> FALSE, refused |-> FALSE,
           prior |-> NoTable, invoked |-> FALSE, dst |-> <<>>, updateFunc |-> "nil",
           phase |-> "none", unique |-> FALSE, cols |-> <<>>]

\* Where a Sync stands in a run of Syncs of one Table with no other call in
\* between: "aborted" by an error, "recovered" when it returns nil right after
\* an aborted one, "further" when it follows a recovered one.
SyncPhase(last, err) ==
    LET before == IF last.name = "Sync" THEN last.phase ELSE "none" IN
    IF before = "recovered" THEN "further"
    ELSE IF err THEN "aborted"
    ELSE IF before = "aborted" THEN "recovered"
    ELSE "none"

NoProbe == [f |-> "none"]

\* No Sync call is under way.
NoFlight == <<>>

-----------------------------------------------------------------------------
(* The calls *)

Init ==
    /\ db \in Dialects
    /\ tbl = NoTable
    /\ live = NoLive
    /\ call = NoCall
    /\ log = <<>>
    /\ pre = NoLive
    /\ synced = NoTable
    /\ built = 0
    /\ rows = <<>>
    /\ probe = NoProbe
    /\ inflight = NoFlight

\* table, err := NewTableFromStructWithDB(s, TableName, dbName)
NewTable(s, order) ==
    LET r == Constructed[<<db, s, order>>] IN
    /\ built < MaxTables
    /\ built' = built + 1
    /\ tbl' = IF r.err THEN tbl ELSE r.table
    /\ call' = [NoCall EXCEPT !.name = "NewTable", !.err = r.err]
    /\ log' = <<>>
    /\ pre' = live
    /\ UNCHANGED <<db, live, synced, rows, probe, inflight>>

\* err := tbl.Sync()
Sync(failAt) ==
    LET exist == GetTableDDL(db, live)
        r     == SyncResult(db, tbl, live, failAt)
    IN  /\ tbl # NoTable
        /\ failAt <= Len(SyncPlan(db, tbl, exist))
        /\ live' = r.live
        /\ log' = r.issued
        /\ call' = [NoCall EXCEPT
                        !.name    = "Sync",
                        !.err     = r.err,
                        !.found   = exist.found,
                        !.refused = failAt # 0 /\ Len(r.issued) = failAt,
                        !.prior   = synced,
                        !.phase   = SyncPhase(call, r.err)]
        /\ pre' = live
        /\ tbl' = SyncedTable(db, tbl, live, r)
        /\ synced' = IF r.err THEN NoTable ELSE tbl'
        /\ UNCHANGED <<db, built, rows, probe, inflight>>

\* err := tbl.Drop()
Drop(failAt) ==
    LET r == DropResult(db, tbl, live, failAt) IN
    /\ tbl # NoTable
    /\ live' = r.live
    /\ log' = r.issued
    /\ call' = [NoCall EXCEPT
                    !.name    = "Drop",
                    !.err     = r.err,
                    !.refused = failAt # 0,
                    !.prior   = synced]
    /\ pre' = live
    /\ synced' = NoTable
    /\ rows' = IF r.err THEN rows ELSE <<>>
    /\ UNCHANGED <<db, tbl, built, probe, inflight>>

\* Another client changes the table between two calls.
OtherClient(stmt) ==
    LET r == Exec(db, live, stmt) IN
    /\ r.ok
    /\ r.live # live
    /\ live' = r.live
    /\ log' = <<>>
    /\ call' = [NoCall EXCEPT !.name = "OtherClient"]
    /\ pre' = live
    /\ synced' = NoTable
    /\ UNCHANGED <<db, tbl, built, rows, probe, inflight>>

Next ==
    \/ \E s \in StructTypes : \E order \in Orders[<<db, s>>] : NewTable(s, order)
    \/ \E failAt \in 0..MaxFailAt : Sync(failAt)
    \/ \E failAt \in 0..1 : Drop(failAt)
    \/ \E stmt \in OtherClientStmts : OtherClient(stmt)

Spec == Init /\ [][Next]_vars

-----------------------------------------------------------------------------
(* Properties of Sync *)

StructOf(S) == [name |-> "TestUser", fields |-> Pick(S, 1)]

\* The Table built from the struct with fields ID, Name and Age.
DebugUserTable == Constructed[<<db, StructOf({1, 2, 3}), <<>>>>].table

Ops(stmts) == [n \in 1..Len(stmts) |-> stmts[n].op]

RemoveAt(seq, k) == SubSeq(seq, 1, k - 1) \o SubSeq(seq, k + 1, Len(seq))

\* The positions k such that t2 declares t1's columns plus the one at k.
AddedAt(t1, t2) ==
    {k \in 1..Len(t2.columns) : RemoveAt(t2.columns, k) = t1.columns}

\* C1: a Sync of a Table whose previous Sync returned nil, with no change to
\* the live schema in between, issues no DDL statement, under either dialect.
C1_SecondSyncIssuesNothing ==
    (call.name = "Sync" /\ call.prior = tbl) => log = <<>>

\* C2: no statement of Sync drops a column or the table, every DROP INDEX names
\* an index the Table declares, and each live column and each live index the
\* Table does not declare is still there, unchanged, when Sync returns.
C2_NonDestructive ==
    call.name = "Sync" =>
        LET declared == {IndexName(tbl, tbl.indexes[n]) : n \in 1..Len(tbl.indexes)}
            wanted   == {tbl.columns[n].name : n \in 1..Len(tbl.columns)}
        IN  /\ \A n \in 1..Len(log) : log[n].op \notin {"DROP COLUMN", "DROP TABLE"}
            /\ \A n \in 1..Len(log) : log[n].op = "DROP INDEX" => log[n].name \in declared
            /\ \A c \in DOMAIN pre.cols :
                  (\A w \in wanted : ~EqualFold(w, c)) =>
                      c \in DOMAIN live.cols /\ live.cols[c] = pre.cols[c]
            /\ \A c \in DOMAIN pre.cols : c \in DOMAIN live.cols
            /\ \A i \in DOMAIN pre.idxs :
                  (\A w \in declared : ~EqualFold(w, i)) =>
                      i \in DOMAIN live.idxs /\ live.idxs[i] = pre.idxs[i]

\* A Sync that dropped and recreated a declared index while the live table
\* held a column and an index the Table does not declare.
C2_Witness ==
    /\ call.name = "Sync"
    /\ "legacy" \in DOMAIN pre.cols
    /\ "legacy_idx" \in DOMAIN pre.idxs
    /\ \E n \in 1..Len(log) : log[n].op = "DROP INDEX"
    /\ \E n \in 1..Len(log) : log[n].op = "ADD COLUMN"

\* C3: for the struct with ID (primary, auto_increment), Name (bare unique) and
\* Age (nullable), Sync on a missing table issues exactly CREATE TABLE with
\* PRIMARY KEY (ID) and then CREATE UNIQUE INDEX on Name.
C3_CreateTableThenUniqueIndex ==
    (call.name = "Sync" /\ ~pre.exists /\ ~call.refused /\ tbl = DebugUserTable) =>
        /\ Ops(log) = <<"CREATE TABLE", "CREATE INDEX">>
        /\ log[1].pk = <<"ID">>
        /\ log[2].unique
        /\ log[2].cols = <<"Name">>

\* C4: once Sync of M has created the table, Sync of M plus one field issues
\* exactly one statement, the ADD COLUMN of that field, and the live table
\* then has the column.
C4_OneAddColumn ==
    (call.name = "Sync" /\ call.prior # NoTable /\ tbl # NoTable /\ ~call.refused) =>
        \A k \in AddedAt(call.prior, tbl) :
            /\ Ops(log) = <<"ADD COLUMN">>
            /\ log[1].name = tbl.columns[k].name
            /\ Resolve(db, live.cols, tbl.columns[k].name) # ""

\* C5: two columns tagged index:idx1 with priorities 2 (A) and 5 (B) give one
\* index idx1 over both columns, B before A.
C5_CompositeIndexOrder ==
    (tbl # NoTable /\ {"A", "B"} \subseteq {tbl.columns[n].name : n \in 1..Len(tbl.columns)}) =>
        /\ \E n \in 1..Len(tbl.indexes) :
              tbl.indexes[n].name = "idx1" /\ tbl.indexes[n].columns = <<"B", "A">>
        /\ Cardinality({n \in 1..Len(tbl.indexes) : tbl.indexes[n].name = "idx1"}) = 1

\* C10: on a missing table GetTableDDL returns no table and no error under
\* both dialects; Sync then issues CREATE TABLE first and, unless the driver
\* refuses a statement, returns nil with the table in the live schema.
C10_MissingTableIsCreated ==
    (call.name = "Sync" /\ ~pre.exists) =>
        /\ ~GetTableDDL(db, pre).err
        /\ ~GetTableDDL(db, pre).found
        /\ ~call.found
        /\ Len(log) > 0
        /\ log[1].op = "CREATE TABLE"
        /\ ~call.refused => (~call.err /\ live.exists)

\* A Sync that found no table, created it and its index, and returned nil.
C10_Witness ==
    /\ call.name = "Sync"
    /\ ~pre.exists
    /\ ~call.refused
    /\ ~call.err
    /\ live.exists
    /\ Ops(log) = <<"CREATE TABLE", "CREATE INDEX">>

-----------------------------------------------------------------------------
(* The index and column functions on their own *)

MaxCols == 2

ColumnAlphabet == {"a", "b", "c"}

ColumnLists == UNION {[1..n -> ColumnAlphabet] : n \in 0..MaxCols}

RECURSIVE Repeat(_, _)
Repeat(s, n) == IF n = 0 THEN "" ELSE s \o Repeat(s, n - 1)

\* Struct type names up to and past the length at which idx_<type>_<column>
\* reaches IndexLimit characters.
TypeNames == {"TestUser"} \cup {Repeat("T", n) : n \in (IndexLimit - 7)..(IndexLimit - 4)}

ProbeTables ==
    {[NoTable EXCEPT !.name = n, !.structType = st] :
        n \in {"test_users"} \cup TypeNames, st \in TypeNames}

IndexNames == {"", "idx1", Repeat("x", IndexLimit + 6)}

ProbeTags == {"", "nullable", "length:100", "primary", "primary;nullable",
              "primary_key:true"}

\* Field sets of the structs handed to NewTableFromStructWithDB on its own,
\* of up to MaxFields fields: fields with and without tags, ignored ones, kinds
\* no driver maps, the spellings of unique, and an index tag whose priority is
\* not a number.
MaxFields == 3

ProbeShapes == {S \in SUBSET {1, 2, 5, 8, 9, 10, 11, 12, 13, 14} : Cardinality(S) <= MaxFields}

ProbeStructs == {[name |-> "TestUser", fields |-> Pick(S, 1)] : S \in ProbeShapes}

ProbeInputs ==
    {[f |-> "IsIdentical", name |-> n, cols |-> C, unique |-> u, args |-> D] :
        n \in {"", "idx1"}, C \in ColumnLists, u \in BOOLEAN, D \in ColumnLists}
    \cup {[f |-> "Name", name |-> n, cols |-> C, table |-> t] :
        n \in IndexNames, C \in ColumnLists \ {<<>>}, t \in ProbeTables}
    \cup {[f |-> "GetColumnDefinitionByType", kind |-> k, ptr |-> ptr, tag |-> tag] :
        k \in Kinds, ptr \in BOOLEAN, tag \in ProbeTags}
    \cup {[f |-> "NewTableFromStructWithDB", s |-> s] : s \in ProbeStructs}

ProbeInit ==
    /\ db \in Dialects
    /\ tbl = NoTable
    /\ live = NoLive
    /\ call = NoCall
    /\ log = <<>>
    /\ pre = NoLive
    /\ synced = NoTable
    /\ built = 0
    /\ rows = <<>>
    /\ probe \in {[in |-> x, done |-> FALSE, out |-> FALSE] : x \in ProbeInputs}
    /\ inflight = NoFlight

\* idx := NewTableIndex(t, name, cols, unique); idx.IsIdentical(args...)
ApplyIsIdentical ==
    /\ probe.in.f = "IsIdentical"
    /\ ~probe.done
    /\ probe' = [probe EXCEPT
                    !.done = TRUE,
                    !.out = IsIdentical(NewTableIndex(probe.in.name, probe.in.cols,
                                                      probe.in.unique),
                                        probe.in.args)]
    /\ UNCHANGED <<db, tbl, live, call, log, pre, synced, built, rows, inflight>>

\* idx := NewTableIndex(t, name, cols, false); idx.Name()
ApplyName ==
    /\ probe.in.f = "Name"
    /\ ~probe.done
    /\ probe' = [probe EXCEPT
                    !.done = TRUE,
                    !.out = IndexName(probe.in.table,
                                      NewTableIndex(probe.in.name, probe.in.cols, FALSE))]
    /\ UNCHANGED <<db, tbl, live, call, log, pre, synced, built, rows, inflight>>

\* db.GetColumnDefinitionByType(fieldType, "c", tags, fieldType.Kind() == reflect.Ptr)
ApplyGetColumnDefinitionByType ==
    /\ probe.in.f = "GetColumnDefinitionByType"
    /\ ~probe.done
    /\ probe' = [probe EXCEPT
                    !.done = TRUE,
                    !.out = GetColumnDefinitionByType(db, probe.in.kind, probe.in.ptr, "c",
                                                      parseTagString(probe.in.tag),
                                                      probe.in.ptr)]
    /\ UNCHANGED <<db, tbl, live, call, log, pre, synced, built, rows, inflight>>

\* col.SetNullable(nullable) on the column the driver returned
ApplySetNullable(nullable) ==
    /\ probe.in.f = "GetColumnDefinitionByType"
    /\ probe.done
    /\ ~probe.out.err
    /\ probe' = [probe EXCEPT !.out.col = SetNullable(@, nullable)]
    /\ UNCHANGED <<db, tbl, live, call, log, pre, synced, built, rows, inflight>>

\* col.SetPrimaryKey(isPrimaryKey) on the column the driver returned
ApplySetPrimaryKey(isPrimaryKey) ==
    /\ probe.in.f = "GetColumnDefinitionByType"
    /\ probe.done
    /\ ~probe.out.err
    /\ probe' = [probe EXCEPT !.out.col = SetPrimaryKey(@, isPrimaryKey)]
    /\ UNCHANGED <<db, tbl, live, call, log, pre, synced, built, rows, inflight>>

\* t, err := NewTableFromStructWithDB(s, "test_users", dbName)
ApplyNewTableFromStructWithDB(order) ==
    /\ probe.in.f = "NewTableFromStructWithDB"
    /\ ~probe.done
    /\ probe' = [probe EXCEPT
                    !.done = TRUE,
                    !.out = NewTableFromStructWithDB(db, probe.in.s, TableName, order)]
    /\ UNCHANGED <<db, tbl, live, call, log, pre, synced, built, rows, inflight>>

ProbeNext ==
    \/ ApplyIsIdentical
    \/ ApplyName
    \/ ApplyGetColumnDefinitionByType
    \/ \E nullable \in BOOLEAN : ApplySetNullable(nullable)
    \/ \E isPrimaryKey \in BOOLEAN : ApplySetPrimaryKey(isPrimaryKey)
    \/ \E order \in Perms(IF probe.in.f = "NewTableFromStructWithDB"
                           THEN IndexNamesOf(db, probe.in.s) ELSE {}) :
            ApplyNewTableFromStructWithDB(order)

SpecProbe == ProbeInit /\ [][ProbeNext]_vars

Count(seq, x) == Cardinality({n \in 1..Len(seq) : seq[n] = x})

\* D is C in some order.
Rearranged(C, D) ==
    /\ Len(C) = Len(D)
    /\ \A x \in ColumnAlphabet : Count(C, x) = Count(D, x)

\* C6: IsIdentical(D...) on an index NewTableIndex built over C is true exactly
\* when D holds the columns of C in some order, whatever the index's name and
\* uniqueness.
C6_IdenticalIffSameColumns ==
    (probe.in.f = "IsIdentical" /\ probe.done) =>
        (probe.out <=> Rearranged(probe.in.cols, probe.in.args))

\* IsIdentical has answered true for an index over <<b, a>> asked about <<a, b>>.
C6_Witness ==
    /\ probe.in.f = "IsIdentical"
    /\ probe.done
    /\ probe.in.cols = <<"b", "a">>
    /\ probe.in.args = <<"a", "b">>
    /\ probe.in.unique
    /\ probe.out = TRUE

Cut(s, n) == IF Len(s) > n THEN SubSeq(s, 1, n) ELSE s

\* C7: Name() of an index without a name is idx_<table name>_<first column>
\* cut to its first 64 characters; a given name is returned as it is.
C7_DefaultNameFromTableName ==
    (probe.in.f = "Name" /\ probe.done) =>
        probe.out =
            IF probe.in.name # "" THEN probe.in.name
            ELSE Cut("idx_" \o probe.in.table.name \o "_"
                        \o NewTableIndex("", probe.in.cols, FALSE).columns[1], 64)

\* C8: uint32 and *uint32 map to BIGINT under Postgres and to INT UNSIGNED
\* under MariaDB; uint64 and *uint64 map to BIGINT under Postgres; none of
\* these returns an error.
C8_UnsignedMapping ==
    (probe.in.f = "GetColumnDefinitionByType" /\ probe.done) =>
        /\ probe.in.kind = "uint32" =>
              /\ ~probe.out.err
              /\ probe.out.col.sqlType =
                    IF db.name = PostgresDB THEN "BIGINT" ELSE "INT UNSIGNED"
        /\ (probe.in.kind = "uint64" /\ db.name = PostgresDB) =>
              /\ ~probe.out.err
              /\ probe.out.col.sqlType = "BIGINT"

\* The Postgres driver has mapped a *uint32 field.
C8_Witness ==
    /\ probe.in.f = "GetColumnDefinitionByType"
    /\ probe.done
    /\ probe.in.kind = "uint32"
    /\ probe.in.ptr
    /\ db.name = PostgresDB
    /\ probe.out.col.sqlType = "BIGINT"

-----------------------------------------------------------------------------
(* Insert and Update *)

\* The SQL NULL a column holds when a row gives it no value.
NULL == "NULL"

\* An INSERT or UPDATE with its bound values: sets and where are sequences of
\* [name, value].
Dml(op, tableName, sets, where) ==
    [op |-> op, name |-> tableName, sets |-> sets, where |-> where]

RECURSIVE FieldByTag(_, _)
\* The loop over the struct's fields that follows a failed FieldByName: the
\* first field whose name tag, or whose name, is the column's; "" if none.
FieldByTag(fields, colName) ==
    IF Len(fields) = 0 THEN ""
    ELSE LET field == fields[1]
             named == /\ field.tag # ""
                      /\ Has(parseTagString(field.tag), TAG_NAME)
                      /\ parseTagString(field.tag)[TAG_NAME] = colName
         IN  IF named \/ field.name = colName THEN field.name
             ELSE FieldByTag(Tail(fields), colName)

\* reflectValue.FieldByName(col.Name()), then the loop over the fields.
FindField(dst, colName) ==
    IF \E n \in 1..Len(dst.fields) : dst.fields[n].name = colName THEN colName
    ELSE FieldByTag(dst.fields, colName)

\* BaseColumn.ConvertFromValueToSQL returns its argument.
ConvertFromValueToSQL(col, value) == value

RowGet(r, c) == IF c \in DOMAIN r THEN r[c] ELSE NULL

\* No two rows agree on every column of a primary key or unique index.
KeysHold(L, R) ==
    LET pk   == {c \in DOMAIN L.cols : L.cols[c].pk}
        keys == (IF pk = {} THEN {} ELSE {pk})
                   \cup {{L.idxs[i].columns[n] : n \in 1..Len(L.idxs[i].columns)} :
                            i \in {x \in DOMAIN L.idxs : L.idxs[x].unique}}
    IN  \A k \in keys : \A i, j \in 1..Len(R) :
            (\A c \in k : RowGet(R[i], c) = RowGet(R[j], c) /\ RowGet(R[i], c) # NULL)
                => i = j

\* The server's INSERT: every named column exists, every column without a
\* value is nullable or has a default, and no key is duplicated.
ExecInsert(d, L, R, stmt) ==
    LET names == [n \in 1..Len(stmt.sets) |-> Resolve(d, L.cols, stmt.sets[n].name)]
        given == {names[n] : n \in 1..Len(names)}
        row   == [c \in DOMAIN L.cols |->
                    IF c \in given
                    THEN stmt.sets[CHOOSE n \in 1..Len(names) : names[n] = c].value
                    ELSE IF L.cols[c].default # "" THEN L.cols[c].default ELSE NULL]
        ok    == /\ L.exists
                 /\ \A n \in 1..Len(names) : names[n] # ""
                 /\ \A c \in DOMAIN L.cols \ given :
                       L.cols[c].nullable \/ L.cols[c].default # "" \/ L.cols[c].autoInc
                 /\ KeysHold(L, Append(R, row))
    IN  IF ok THEN [ok |-> TRUE, rows |-> Append(R, row), affected |-> 1]
        ELSE [ok |-> FALSE, rows |-> R, affected |-> 0]

\* The server's UPDATE.  RowsAffected counts the rows matched under Postgres
\* and the rows changed under MariaDB.
ExecUpdate(d, L, R, stmt) ==
    LET setName(n)   == Resolve(d, L.cols, stmt.sets[n].name)
        whereName(n) == Resolve(d, L.cols, stmt.where[n].name)
        matches(r)   == \A n \in 1..Len(stmt.where) :
                            RowGet(r, whereName(n)) = stmt.where[n].value
        updated(r)   == [c \in DOMAIN r |->
                           IF \E n \in 1..Len(stmt.sets) : setName(n) = c
                           THEN stmt.sets[CHOOSE n \in 1..Len(stmt.sets) : setName(n) = c].value
                           ELSE r[c]]
        after   == [n \in 1..Len(R) |-> IF matches(R[n]) THEN updated(R[n]) ELSE R[n]]
        ok      == /\ L.exists
                   /\ \A n \in 1..Len(stmt.sets) : setName(n) # ""
                   /\ \A n \in 1..Len(stmt.where) : whereName(n) # ""
                   /\ KeysHold(L, after)
    IN  IF ~ok THEN [ok |-> FALSE, rows |-> R, affected |-> 0]
        ELSE [ok |-> TRUE, rows |-> after,
              affected |-> IF d.name = PostgresDB
                           THEN Cardinality({n \in 1..Len(R) : matches(R[n])})
                           ELSE Cardinality({n \in 1..Len(R) : after[n] # R[n]})]

RECURSIVE InsertColumns(_, _, _)
\* The loop of Insert over t.columns.
InsertColumns(columns, dst, acc) ==
    IF Len(columns) = 0 THEN acc
    ELSE LET col   == columns[1]
             field == FindField(dst, col.name)
         IN  IF IsAutoIncrement(col) \/ field = ""
             THEN InsertColumns(Tail(columns), dst, acc)
             ELSE InsertColumns(Tail(columns), dst,
                     Append(acc, [name  |-> col.name,
                                  value |-> ConvertFromValueToSQL(col, dst.vals[field])]))

NoDml(R) == [err |-> TRUE, rows |-> R, issued |-> <<>>, invoked |-> FALSE]

\* Table.Insert(dst)
Insert(d, t, dst, L, R) ==
    IF ~d.canInsert THEN NoDml(R)
    ELSE IF ~dst.isStruct THEN NoDml(R)
    ELSE LET sets == InsertColumns(t.columns, dst, <<>>)
             stmt == Dml("INSERT", t.name, sets, <<>>)
             r    == ExecInsert(d, L, R, stmt)
         IN  IF Len(sets) = 0 THEN NoDml(R)
             ELSE [err |-> ~r.ok, rows |-> r.rows, issued |-> <<stmt>>, invoked |-> FALSE]

RECURSIVE UpdateClauses(_, _, _)
\* The loop of Update over t.columns that builds the SET clauses.
UpdateClauses(columns, dst, acc) ==
    IF Len(columns) = 0 THEN acc
    ELSE LET col   == columns[1]
             field == FindField(dst, col.name)
         IN  IF col.isPrimaryKey \/ IsAutoIncrement(col) \/ field = ""
             THEN UpdateClauses(Tail(columns), dst, acc)
             ELSE UpdateClauses(Tail(columns), dst,
                     Append(acc, [name  |-> col.name,
                                  value |-> ConvertFromValueToSQL(col, dst.vals[field])]))

RECURSIVE WhereConditions(_, _, _)
\* The loop of Update over the primary columns; err when a field is missing.
WhereConditions(primaryCols, dst, acc) ==
    IF Len(primaryCols) = 0 THEN [err |-> FALSE, conds |-> acc]
    ELSE LET col   == primaryCols[1]
             field == FindField(dst, col.name)
         IN  IF field = "" THEN [err |-> TRUE, conds |-> acc]
             ELSE WhereConditions(Tail(primaryCols), dst,
                     Append(acc, [name  |-> col.name,
                                  value |-> ConvertFromValueToSQL(col, dst.vals[field])]))

\* An Update that looks at its argument before it calls updateFunc.
UpdateChecksFirst(d, t, dst, updateFunc, L, R) ==
    LET invoked == updateFunc # "nil"
        stop    == [NoDml(R) EXCEPT !.invoked = invoked]
        sets    == UpdateClauses(t.columns, dst, <<>>)
        where   == WhereConditions(PrimaryColumns(t), dst, <<>>)
        stmt    == Dml("UPDATE", t.name, sets, where.conds)
        r       == ExecUpdate(d, L, R, stmt)
    IN  IF ~dst.isStruct THEN NoDml(R)
        ELSE IF updateFunc = "fails" THEN stop
        ELSE IF Len(PrimaryColumns(t)) = 0 THEN stop
        ELSE IF where.err THEN stop
        ELSE IF Len(sets) = 0 THEN stop
        ELSE [err     |-> ~r.ok \/ (d.canRows /\ r.affected = 0),
              rows    |-> r.rows,
              issued  |-> <<stmt>>,
              invoked |-> invoked]

\* Update once CanUpdate has been passed: updateFunc, then the statement.
UpdateAllowed(d, t, dst, updateFunc, L, R) ==
    LET invoked == updateFunc # "nil"
        stop    == [NoDml(R) EXCEPT !.invoked = invoked]
        sets    == UpdateClauses(t.columns, dst, <<>>)
        where   == WhereConditions(PrimaryColumns(t), dst, <<>>)
        stmt    == Dml("UPDATE", t.name, sets, where.conds)
        r       == ExecUpdate(d, L, R, stmt)
    IN  IF updateFunc = "fails" THEN stop
        ELSE IF ~dst.isStruct THEN stop
        ELSE IF Len(PrimaryColumns(t)) = 0 THEN stop
        ELSE IF where.err THEN stop
        ELSE IF Len(sets) = 0 THEN stop
        ELSE [err     |-> ~r.ok \/ (d.canRows /\ r.affected = 0),
              rows    |-> r.rows,
              issued  |-> <<stmt>>,
              invoked |-> invoked]

\* An Update that calls updateFunc before it asks the dialect.
UpdateUngated(d, t, dst, updateFunc, L, R) ==
    LET r == UpdateAllowed(d, t, dst, updateFunc, L, R) IN
    IF ~d.canUpdate THEN [NoDml(R) EXCEPT !.invoked = r.invoked] ELSE r

\* Table.Update(dst, updateFunc)
Update(d, t, dst, updateFunc, L, R) ==
    IF ~d.canUpdate THEN NoDml(R)
    ELSE UpdateAllowed(d, t, dst, updateFunc, L, R)

-----------------------------------------------------------------------------
(* Rows written through a Table *)

MaxRows == 2

\* The real dialects, and wrappers that embed one and report that they cannot
\* insert or update, or cannot count the rows affected.
DmlDialects ==
    Dialects
        \cup {[d EXCEPT !.canInsert = FALSE] : d \in Dialects}
        \cup {[d EXCEPT !.canUpdate = FALSE] : d \in Dialects}
        \cup {[d EXCEPT !.canRows = FALSE] : d \in Dialects}

\* Tables for a struct with a primary key and for one without.
DmlStructs == {StructOf({1, 2}), StructOf({2, 3})}

RowIds == {"1", "2"}

RowNames == {"x", "y"}

\* Values handed to Insert and Update: the struct the table was built from, a
\* struct that has only the ID field, and a value that is no struct.
Dsts ==
    {[isStruct |-> TRUE, fields |-> Pick({1, 2}, 1), vals |-> [ID |-> i, Name |-> n]] :
        i \in RowIds, n \in RowNames}
    \cup {[isStruct |-> TRUE, fields |-> Pick({1}, 1), vals |-> [ID |-> i]] : i \in RowIds}
    \cup {[isStruct |-> FALSE, fields |-> <<>>, vals |-> <<>>]}

UpdateFuncs == {"nil", "ok", "fails"}

DmlInit ==
    /\ db \in DmlDialects
    /\ tbl \in {NewTableFromStructWithDB(db, s, TableName, <<>>).table : s \in DmlStructs}
    /\ live = NoLive
    /\ call = NoCall
    /\ log = <<>>
    /\ pre = NoLive
    /\ synced = NoTable
    /\ built = 1
    /\ rows = <<>>
    /\ probe = NoProbe
    /\ inflight = NoFlight

\* err := tbl.Insert(dst)
InsertRow(dst) ==
    LET r == Insert(db, tbl, dst, live, rows) IN
    /\ Len(rows) < MaxRows
    /\ rows' = r.rows
    /\ log' = r.issued
    /\ call' = [NoCall EXCEPT !.name = "Insert", !.err = r.err, !.dst = dst, !.prior = synced]
    /\ pre' = live
    /\ UNCHANGED <<db, tbl, live, synced, built, probe, inflight>>

\* err := tbl.Update(dst, updateFunc)
UpdateRow(dst, updateFunc) ==
    LET r == Update(db, tbl, dst, updateFunc, live, rows) IN
    /\ rows' = r.rows
    /\ log' = r.issued
    /\ call' = [NoCall EXCEPT !.name = "Update", !.err = r.err, !.dst = dst,
                              !.updateFunc = updateFunc, !.invoked = r.invoked,
                              !.prior = synced]
    /\ pre' = live
    /\ UNCHANGED <<db, tbl, live, synced, built, probe, inflight>>

\* A value handed to Update that lacks the field of the primary key.
KeylessDsts == {[isStruct |-> TRUE, fields |-> Pick({2}, 1), vals |-> [Name |-> "x"]]}

DmlNext ==
    \/ Sync(0)
    \/ \E dst \in Dsts : InsertRow(dst)
    \/ \E dst \in Dsts \cup KeylessDsts : \E updateFunc \in UpdateFuncs :
            UpdateRow(dst, updateFunc)

SpecDml == DmlInit /\ [][DmlNext]_vars

\* C9: Insert under a dialect whose CanInsert() is false returns an error and
\* issues no statement; Update under a dialect whose CanUpdate() is false
\* returns an error, issues no statement and does not call updateFunc.
C9_CapabilityGate ==
    /\ (call.name = "Insert" /\ ~db.canInsert) => (call.err /\ log = <<>>)
    /\ (call.name = "Update" /\ ~db.canUpdate) =>
          (call.err /\ log = <<>> /\ ~call.invoked)

\* Update was refused by the gate with an updateFunc to call and a struct
\* whose row is in the table.
C9_Witness ==
    /\ call.name = "Update"
    /\ ~db.canUpdate
    /\ call.updateFunc = "ok"
    /\ call.dst.isStruct
    /\ "ID" \in DOMAIN call.dst.vals
    /\ \E n \in 1..Len(rows) : RowGet(rows[n], Stored(db, "ID")) = call.dst.vals["ID"]
    /\ call.err

-----------------------------------------------------------------------------
(* Sync and Drop under failure *)

RECURSIVE ApplyAll(_, _, _)
\* The catalog after the server has executed stmts, each one successfully.
ApplyAll(d, L, stmts) ==
    IF Len(stmts) = 0 THEN L ELSE ApplyAll(d, Exec(d, L, stmts[1]).live, Tail(stmts))

\* C11: when the k-th statement of a Sync fails, Sync returns an error, the
\* statements it issued are the first k of the pass and none after, the k-1
\* before it stay applied, and the Table is as it was.
C11_FailFast ==
    [][(call'.name = "Sync" /\ call'.err) =>
          LET plan == SyncPlan(db, tbl, GetTableDDL(db, live))
              k    == Len(log')
          IN  /\ k \in 1..Len(plan)
              /\ log' = SubSeq(plan, 1, k)
              /\ live' = ApplyAll(db, live, SubSeq(plan, 1, k - 1))
              /\ tbl' = tbl]_vars

\* A Sync whose second statement the driver refused, with the first applied.
C11_Witness ==
    /\ call.name = "Sync"
    /\ call.err
    /\ call.refused
    /\ Len(log) = 2
    /\ live # pre


\* Every column and every index the Table declares is in the catalog.
AllPresent(d, t, L) ==
    /\ \A n \in 1..Len(t.columns) : Resolve(d, L.cols, t.columns[n].name) # ""
    /\ \A n \in 1..Len(t.indexes) : Resolve(d, L.idxs, IndexName(t, t.indexes[n])) # ""

\* C12: the Sync that returns nil right after an aborted Sync of the same
\* Table leaves every declared column and index in the live schema, and the
\* Sync after that one issues no DDL statement.
C12_ConvergesAfterFailure ==
    call.name = "Sync" =>
        /\ call.phase = "recovered" => AllPresent(db, tbl, live)
        /\ call.phase = "further" => log = <<>>


\* C13: Drop issues one statement, the DROP TABLE IF EXISTS of the table's
\* name; once the server has executed it the table is not in the live schema,
\* whether it was there before or not; and Sync never issues a DROP TABLE.
C13_DropIsOneStatement ==
    /\ call.name = "Drop" =>
          /\ log = <<DropTableSql(db, tbl.name)>>
          /\ ~call.err => ~live.exists /\ DOMAIN live.cols = {} /\ DOMAIN live.idxs = {}
    /\ call.name = "Sync" => \A n \in 1..Len(log) : log[n].op # "DROP TABLE"

\* A Drop that returned nil on a table that was there.
C13_Witness ==
    /\ call.name = "Drop"
    /\ ~call.err
    /\ pre.exists
    /\ ~live.exists


-----------------------------------------------------------------------------
(* Columns from tags *)

\* The column the driver returned, if it returned one.
Returned ==
    /\ probe.in.f = "GetColumnDefinitionByType"
    /\ probe.done
    /\ ~probe.out.err

\* C14: a column the driver built, for any tags and after any SetNullable and
\* SetPrimaryKey calls, is not nullable when it is a primary key.
C14_PrimaryKeyNotNullable ==
    Returned => (probe.out.col.isPrimaryKey => ~probe.out.col.isNullable)


\* The step in which the driver returns a column for the probed field.
Returns ==
    /\ probe.in.f = "GetColumnDefinitionByType"
    /\ ~probe.done
    /\ probe'.done
    /\ ~probe'.out.err

\* C15: in both dialects the column returned for a pointer-typed field whose
\* tag has no nullable key (and that is not a primary key) is nullable.
C15_PointerIsNullable ==
    [][(/\ Returns
        /\ probe.in.ptr
        /\ ~Has(parseTagString(probe.in.tag), TAG_NULLABLE)
        /\ ~Has(parseTagString(probe.in.tag), TAG_PRIMARY))
          => probe'.out.col.isNullable]_vars

\* C16: the column returned for a field tagged primary_key:true is a primary
\* key.
C16_PrimaryKeyTag ==
    [][(Returns /\ TagTrue(parseTagString(probe.in.tag), "primary_key"))
          => probe'.out.col.isPrimaryKey]_vars


-----------------------------------------------------------------------------
(* Table construction *)

\* NewTableFromStructWithDB has returned for the probed struct.
Constructs ==
    /\ probe.in.f = "NewTableFromStructWithDB"
    /\ probe.done

Ignored(field) == Has(parseTagString(field.tag), TAG_IGNORE)

\* The fields for which the driver is asked for a column and returns an error.
Failing(d, fields) ==
    SelectSeq(fields,
              LAMBDA field :
                  /\ field.tag # ""
                  /\ ~Ignored(field)
                  /\ GetColumnDefinitionByType(d, field.kind, field.ptr, field.name,
                                               parseTagString(field.tag), field.ptr).err)

Names(seq) == [n \in 1..Len(seq) |-> seq[n].name]

\* C17: the columns of a constructed Table are, in declaration order, one for
\* each field of the struct that is not tagged ignore, the fields with an empty
\* tag string among them.
C17_OneColumnPerField ==
    (Constructs /\ ~probe.out.err) =>
        Names(probe.out.table.columns)
            = Names(SelectSeq(probe.in.s.fields, LAMBDA field : ~Ignored(field)))

\* C18: when the driver has no column for one or more fields,
\* NewTableFromStructWithDB returns no Table and an error that names each of
\* those fields.
C18_ErrorNamesEveryField ==
    (Constructs /\ Len(Failing(db, probe.in.s.fields)) > 0) =>
        /\ probe.out.err
        /\ probe.out.table = NoTable
        /\ probe.out.named = Names(Failing(db, probe.in.s.fields))


\* The positions in the Table's index set of the unique index <column>_unique
\* over the one column.
UniqueIndexesOf(t, col) ==
    {n \in 1..Len(t.indexes) :
        /\ t.indexes[n].name = col.name \o "_unique"
        /\ t.indexes[n].columns = <<col.name>>
        /\ t.indexes[n].isUnique}

\* C20: in a constructed Table a column whose unique key is present with no
\* value, with "true" or with "1" has exactly one unique single-column index
\* <column>_unique, and no index bears that name for any other column.
C20_UniqueTagGivesIndex ==
    (Constructs /\ ~probe.out.err) =>
        \A n \in 1..Len(probe.out.table.columns) :
            LET col == probe.out.table.columns[n] IN
            IF TagTrue(col.tags, TAG_UNIQUE)
            THEN Cardinality(UniqueIndexesOf(probe.out.table, col)) = 1
            ELSE \A k \in 1..Len(probe.out.table.indexes) :
                    probe.out.table.indexes[k].name # col.name \o "_unique"


-----------------------------------------------------------------------------
(* The Table over its life *)

\* A struct with a primary key, a unique column and a nullable one.
FrameStructs == {StructOf({1, 2, 3})}

\* Arguments of AddIndex: a column list out of alphabetical order.
FrameIndexes == {<<"ID", "Age">>}

\* Arguments of SetExtra
FrameExtras == {[k \in {"engine"} |-> "InnoDB"]}

FrameDsts ==
    {[isStruct |-> TRUE, fields |-> Pick({1, 2}, 1), vals |-> [ID |-> "1", Name |-> "x"]],
     [isStruct |-> FALSE, fields |-> <<>>, vals |-> <<>>]}

FrameInit ==
    /\ db \in Dialects
    /\ tbl \in {NewTableFromStructWithDB(db, s, TableName, <<>>).table : s \in FrameStructs}
    /\ live = NoLive
    /\ call = NoCall
    /\ log = <<>>
    /\ pre = NoLive
    /\ synced = NoTable
    /\ built = 1
    /\ rows = <<>>
    /\ probe = NoProbe
    /\ inflight = NoFlight

\* ok := tbl.AddIndex(unique, cols...)
AddIndexCall(unique, cols) ==
    LET r == AddIndex(tbl, unique, cols) IN
    /\ tbl' = r.table
    /\ call' = [NoCall EXCEPT !.name = "AddIndex", !.err = ~r.ok, !.prior = synced,
                              !.unique = unique, !.cols = cols]
    /\ log' = <<>>
    /\ pre' = live
    /\ synced' = NoTable
    /\ UNCHANGED <<db, live, built, rows, probe, inflight>>

\* m := tbl.GetExtra()
GetExtraCall ==
    /\ tbl' = GetExtra(tbl).table
    /\ call' = [NoCall EXCEPT !.name = "GetExtra", !.prior = synced]
    /\ log' = <<>>
    /\ pre' = live
    /\ UNCHANGED <<db, live, synced, built, rows, probe, inflight>>

\* tbl.SetExtra(kvdata)
SetExtraCall(kvdata) ==
    /\ tbl' = SetExtra(tbl, kvdata)
    /\ call' = [NoCall EXCEPT !.name = "SetExtra", !.prior = synced]
    /\ log' = <<>>
    /\ pre' = live
    /\ synced' = NoTable
    /\ UNCHANGED <<db, live, built, rows, probe, inflight>>

FrameNext ==
    \/ \E failAt \in 0..1 : Sync(failAt)
    \/ \E failAt \in 0..1 : Drop(failAt)
    \/ \E dst \in FrameDsts : InsertRow(dst)
    \/ \E dst \in FrameDsts : UpdateRow(dst, "nil")
    \/ \E cols \in FrameIndexes : AddIndexCall(FALSE, cols)
    \/ GetExtraCall
    \/ \E kvdata \in FrameExtras : SetExtraCall(kvdata)

SpecFrame == FrameInit /\ [][FrameNext]_vars

\* C19: a Sync, Drop, Insert, Update, GetExtra or SetExtra call, whether it
\* returns an error or not, leaves the Table's name, its columns and its
\* indexes as they were.
C19_OnlyAddIndexChangesTable ==
    [][call'.name \in {"Sync", "Drop", "Insert", "Update", "GetExtra", "SetExtra"} =>
          /\ tbl'.name = tbl.name
          /\ tbl'.columns = tbl.columns
          /\ tbl'.indexes = tbl.indexes]_vars

\* A Sync under MariaDB has compared an index that AddIndex added over two
\* columns with the one in the catalog, on a Table whose options were set.
C19_Witness ==
    /\ call.name = "Sync"
    /\ db.name = MariaDB
    /\ call.found
    /\ DOMAIN tbl.extraOptions # {}
    /\ \E n \in 1..Len(tbl.indexes) :
          /\ Len(tbl.indexes[n].columns) = 2
          /\ Has(pre.idxs, IndexName(tbl, tbl.indexes[n]))

-----------------------------------------------------------------------------
(* One Sync pass against a given catalog *)

\* Structs whose indexes are declared by different fields: a named index
\* before a unique column, and two named indexes.
PassStructs == {StructOf({6, 12}), StructOf({6, 15})}

\* The Tables NewTableFromStructWithDB may return for them, one for each order
\* in which constructIndex may range over its map of index names.
PassTables(d) ==
    UNION {{NewTableFromStructWithDB(d, s, TableName, order).table :
                order \in Perms(IndexNamesOf(d, s))} : s \in PassStructs}

\* The column slice with every name in lower case, as a program that declares
\* its columns in lower case would hand it to GetCreateTableSQL.
LowerCased(columns) ==
    [n \in 1..Len(columns) |-> [columns[n] EXCEPT !.name = ToLower(@)]]

\* The Table of an earlier version of the model, whose idx1 spans A and B.
EarlierTable(d) == NewTableFromStructWithDB(d, StructOf({6, 7}), TableName, <<"idx1">>).table

\* DDL run on the table name before the pass, by this program or another:
\* none; a CREATE TABLE with the column names as declared or in lower case and
\* no index; the statements of
\* a Sync that created the table (of this model or the earlier one); and those
\* statements followed by the replacement of idx1 by a unique index on A.
PassHistories(d) ==
    {<<>>}
        \cup {<<GetCreateTableSQL(d, TableName, cols)>> :
                   cols \in UNION {{t.columns, LowerCased(t.columns)} : t \in PassTables(d)}}
        \cup {CreatePlan(d, t) : t \in PassTables(d) \cup {EarlierTable(d)}}
        \cup {CreatePlan(d, t) \o
                <<Stmt("DROP INDEX", "idx1", "", <<>>, FALSE, <<>>, <<>>),
                  Stmt("CREATE INDEX", "idx1", "", <<"A">>, TRUE, <<>>, <<>>)>> : t \in PassTables(d)}

PassInit ==
    /\ db \in Dialects
    /\ tbl \in PassTables(db)
    /\ live \in {ApplyAll(db, NoLive, h) : h \in PassHistories(db)}
    /\ call = NoCall
    /\ log = <<>>
    /\ pre = NoLive
    /\ synced = NoTable
    /\ built = 1
    /\ rows = <<>>
    /\ probe = NoProbe
    /\ inflight = NoFlight

PassNext == \E failAt \in 0..1 : Sync(failAt)

SpecPass == PassInit /\ [][PassNext]_vars


\* The place in the struct of the first field that declares index i of t.
DeclaredAt(t, i) ==
    CHOOSE n \in 1..Len(t.columns) :
        /\ \E k \in 1..Len(i.columns) : i.columns[k] = t.columns[n].name
        /\ \A m \in 1..(n - 1) : \A k \in 1..Len(i.columns) : i.columns[k] # t.columns[m].name

\* C21: a Sync that finds no table and runs through issues CREATE TABLE first
\* and then one create-index statement for each index of the Table, the unique
\* variant for the unique ones, in the order in which the struct declares the
\* indexes, which is one order for one model.
C21_CreateThenIndexesInOrder ==
    (call.name = "Sync" /\ ~call.found /\ ~call.err) =>
        /\ Len(log) = 1 + Len(tbl.indexes)
        /\ log[1].op = "CREATE TABLE"
        /\ \A n \in 1..Len(tbl.indexes) :
              /\ log[n + 1].op = "CREATE INDEX"
              /\ log[n + 1].name = IndexName(tbl, tbl.indexes[n])
              /\ log[n + 1].unique = tbl.indexes[n].isUnique
        /\ \A m, n \in 1..Len(tbl.indexes) :
              m < n => DeclaredAt(tbl, tbl.indexes[m]) <= DeclaredAt(tbl, tbl.indexes[n])

-----------------------------------------------------------------------------
(* The convergence pass, column by column *)

\* The places in the log of the ADD COLUMN statements for a column name.
Adds(name) == {n \in 1..Len(log) : log[n].op = "ADD COLUMN" /\ log[n].name = name}

\* The places in the log of the alter-column statements for a column name.
Alters(name) == {n \in 1..Len(log) : log[n].op = "ALTER COLUMN" /\ log[n].name = name}

\* The live column names that spell name up to letter case.
FoldsTo(L, name) == {k \in DOMAIN L.cols : EqualFold(k, name)}

\* C22: in a convergence pass a desired column counts as present when a live
\* column has its name up to letter case under Postgres, and its exact name
\* under MariaDB: a present column gets no ADD COLUMN, an absent one gets one
\* unless the pass was aborted before it, and an absent first column gets the
\* first statement of the pass.
C22_ColumnMatchByDialect ==
    (call.name = "Sync" /\ call.found) =>
        \A n \in 1..Len(tbl.columns) :
            LET name    == tbl.columns[n].name
                present == IF db.name = PostgresDB THEN FoldsTo(pre, name) # {}
                           ELSE name \in DOMAIN pre.cols
            IN  /\ present => Adds(name) = {}
                /\ ~present => (Cardinality(Adds(name)) = 1 \/ (call.err /\ Adds(name) = {}))
                /\ (~present /\ n = 1) => (log # <<>> /\ Adds(name) = {1})

\* A pass under MariaDB met a live column that differs from a desired one only
\* in letter case, and issued ADD COLUMN for the desired one.
C22_Witness ==
    /\ call.name = "Sync"
    /\ call.found
    /\ db.name = MariaDB
    /\ \E n \in 1..Len(tbl.columns) :
          /\ tbl.columns[n].name \notin DOMAIN pre.cols
          /\ FoldsTo(pre, tbl.columns[n].name) # {}
          /\ Adds(tbl.columns[n].name) # {}

\* A pass under Postgres met a live column that differs from a desired one only
\* in letter case, ran through, and issued no ADD COLUMN for it.
C22_WitnessPostgres ==
    /\ call.name = "Sync"
    /\ call.found
    /\ ~call.err
    /\ db.name = PostgresDB
    /\ \E n \in 1..Len(tbl.columns) :
          /\ tbl.columns[n].name \notin DOMAIN pre.cols
          /\ FoldsTo(pre, tbl.columns[n].name) # {}
          /\ Adds(tbl.columns[n].name) = {}

\* The live column a desired column name is matched to, or "" when none is.
MatchedTo(d, L, name) ==
    IF d.name = PostgresDB
    THEN (IF ToLower(name) \in DOMAIN L.cols THEN ToLower(name) ELSE "")
    ELSE (IF name \in DOMAIN L.cols THEN name ELSE "")

\* The live column c is what the declaration of col makes of a column: the
\* type the server records for col's type, and col's nullability and default.
SameDefinition(d, c, col) ==
    /\ c.type = CatalogType(d, col.sqlType)
    /\ c.nullable = col.isNullable
    /\ c.default = col.defaultString

-----------------------------------------------------------------------------
(* The convergence pass, index by index *)

\* The verbs of the index statements the pass issued for an index name.
IndexOps(name) ==
    Ops(SelectSeq(log, LAMBDA s : s.op \in {"CREATE INDEX", "DROP INDEX"} /\ s.name = name))

\* The column set of an index, letter case aside.
ColumnSet(columns) == {ToLower(columns[k]) : k \in 1..Len(columns)}

\* C24: in a convergence pass that runs through, a desired index that exists
\* live under its name gets DROP INDEX and then CREATE INDEX when its column
\* set or its uniqueness differs from the live one, and no statement when both
\* are equal.
C24_DropThenCreateWhenDiffers ==
    (call.name = "Sync" /\ call.found /\ ~call.err) =>
        \A n \in 1..Len(tbl.indexes) :
            LET name == IndexName(tbl, tbl.indexes[n])
                k    == Resolve(db, pre.idxs, name)
            IN  k # "" =>
                    IndexOps(name) =
                        IF \/ ColumnSet(pre.idxs[k].columns) # ColumnSet(tbl.indexes[n].columns)
                           \/ pre.idxs[k].unique # tbl.indexes[n].isUnique
                        THEN <<"DROP INDEX", "CREATE INDEX">>
                        ELSE <<>>

\* The places in the log of the create-index statements for an index name.
Creates(name) == {n \in 1..Len(log) : log[n].op = "CREATE INDEX" /\ log[n].name = name}

\* C25: in a convergence pass each desired index that no live index bears the
\* name of gets one create-index statement, never more, and exactly one when
\* the pass runs through, however many columns the Table declares.
C25_OneCreatePerAbsentIndex ==
    (call.name = "Sync" /\ call.found) =>
        \A n \in 1..Len(tbl.indexes) :
            LET name == IndexName(tbl, tbl.indexes[n]) IN
            Resolve(db, pre.idxs, name) = "" =>
                /\ Cardinality(Creates(name)) <= 1
                /\ ~call.err => Cardinality(Creates(name)) = 1

-----------------------------------------------------------------------------
(* Auto-increment columns under MariaDB *)

\* The column's field carries the auto_increment key with a value that sets it.
TaggedAutoIncrement(col) == TagTrue(col.tags, TAG_AUTO_INCREMENT)

\* C26: under MariaDB a column reports IsAutoIncrement() true exactly when its
\* field is tagged auto_increment; its clause in the CREATE TABLE of Sync has
\* AUTO_INCREMENT exactly then; and an Insert of a value that has the column's
\* field leaves the column out of its column list exactly then.
C26_AutoIncrementUnderMariaDB ==
    db.name = MariaDB =>
        \A n \in 1..Len(tbl.columns) :
            LET col == tbl.columns[n] IN
            /\ IsAutoIncrement(col) = TaggedAutoIncrement(col)
            /\ (call.name = "Sync" /\ ~call.found /\ log # <<>>) =>
                  log[1].clauses[n].autoInc = TaggedAutoIncrement(col)
            /\ (call.name = "Insert" /\ log # <<>> /\ FindField(call.dst, col.name) # "") =>
                  (\E k \in 1..Len(log[1].sets) : log[1].sets[k].name = col.name)
                      = ~TaggedAutoIncrement(col)

-----------------------------------------------------------------------------
(* The index set of a Table *)

\* Structs that declare a named index, a unique column, and a column with both
\* a unique key and an index key.
IndexStructs == {StructOf({6, 7}), StructOf({5, 7}), StructOf({16})}

\* Arguments of AddIndex: one and two columns, the two in either order, and
\* one column named twice.
IndexArgs == {<<"B">>, <<"A", "B">>, <<"B", "A">>, <<"D">>, <<"Email">>, <<"B", "B">>}

IndexInit ==
    /\ db \in Dialects
    /\ tbl \in UNION {{NewTableFromStructWithDB(db, s, TableName, order).table :
                          order \in Perms(IndexNamesOf(db, s))} : s \in IndexStructs}
    /\ live = NoLive
    /\ call = NoCall
    /\ log = <<>>
    /\ pre = NoLive
    /\ synced = NoTable
    /\ built = 1
    /\ rows = <<>>
    /\ probe = NoProbe
    /\ inflight = NoFlight

IndexNext == \E unique \in BOOLEAN : \E cols \in IndexArgs : AddIndexCall(unique, cols)

SpecIndex == IndexInit /\ [][IndexNext]_vars

\* The columns of a list, as a set.
Columns(cols) == {cols[k] : k \in 1..Len(cols)}

C30_NoTwoIndexesOverSameColumns ==
    \A i, j \in 1..Len(tbl.indexes) :
        i # j => Columns(tbl.indexes[i].columns) # Columns(tbl.indexes[j].columns)

-----------------------------------------------------------------------------
(* Two Sync calls side by side *)

Procs == {1, 2}

\* A call that has not begun.
Idle == [pc |-> "idle", found |-> FALSE, plan |-> <<>>, issued |-> <<>>, err |-> FALSE,
         serial |-> FALSE, late |-> FALSE]

RaceInit ==
    /\ db \in Dialects
    /\ tbl \in PassTables(db)
    /\ live = NoLive
    /\ call = NoCall
    /\ log = <<>>
    /\ pre = NoLive
    /\ synced = NoTable
    /\ built = 1
    /\ rows = <<>>
    /\ probe = NoProbe
    /\ inflight = [p \in Procs |-> Idle]

\* Call p enters Sync and introspects: existTable, err := t.db.GetTableDDL(t.name).
\* What it goes on to execute is decided by what it found.  serial: no other
\* call is between its GetTableDDL and its return.
Begin(p) ==
    LET exist == GetTableDDL(db, live)
        plan  == IF exist.err THEN <<>> ELSE SyncPlan(db, tbl, exist)
    IN  /\ inflight[p].pc = "idle"
        /\ inflight' = [inflight EXCEPT ![p] =
                           [pc     |-> IF plan = <<>> THEN "returned" ELSE "running",
                            found  |-> exist.found,
                            plan   |-> plan,
                            issued |-> <<>>,
                            err    |-> exist.err,
                            serial |-> \A q \in Procs \ {p} : inflight[q].pc # "running",
                            late   |-> FALSE]]
        /\ UNCHANGED <<db, tbl, live, call, log, pre, synced, built, rows, probe>>

\* Call p hands its next statement to t.db.Exec and returns on an error or
\* after the last one.  late: the statement was CREATE TABLE and the table was
\* there.  log is the order in which the server received the statements.  The
\* Tables here have their index columns in order, so the sort inside
\* IsIdentical leaves tbl as it is.
Step(p) ==
    LET stmt == inflight[p].plan[1]
        r    == Exec(db, live, stmt)
    IN  /\ inflight[p].pc = "running"
        /\ live' = IF r.ok THEN r.live ELSE live
        /\ log' = Append(log, stmt)
        /\ inflight' = [inflight EXCEPT ![p] =
                           [@ EXCEPT !.issued = Append(@, stmt),
                                     !.plan   = Tail(@),
                                     !.err    = ~r.ok,
                                     !.late   = @ \/ (stmt.op = "CREATE TABLE" /\ live.exists),
                                     !.pc     = IF ~r.ok \/ Len(inflight[p].plan) = 1
                                                THEN "returned" ELSE "running"]]
        /\ UNCHANGED <<db, tbl, call, pre, synced, built, rows, probe>>

RaceNext == \E p \in Procs : Begin(p) \/ Step(p)

SpecRace == RaceInit /\ [][RaceNext]_vars

\* The calls that handed a CREATE TABLE to the server.
Creators == {p \in Procs : \E n \in 1..Len(inflight[p].issued) :
                              inflight[p].issued[n].op = "CREATE TABLE"}

\* C28: nothing keeps two Sync calls of one table apart.  When both have
\* introspected before either created the table, both issue CREATE TABLE; the
\* one whose CREATE TABLE reaches the server second returns an error having
\* issued nothing else, and the other runs its whole plan.  When one call
\* begins only after the other has returned, only the first issues CREATE TABLE.
C28_UnserializedSyncs ==
    (\A p \in Procs : inflight[p].pc = "returned") =>
        /\ (\A p \in Procs : ~inflight[p].found) =>
              /\ Creators = Procs
              /\ Cardinality({p \in Procs : inflight[p].late}) = 1
              /\ \A p \in Procs :
                    IF inflight[p].late
                    THEN inflight[p].err /\ Len(inflight[p].issued) = 1
                    ELSE ~inflight[p].err /\ inflight[p].issued = CreatePlan(db, tbl)
        /\ (\A p \in Procs : inflight[p].serial) =>
              /\ Cardinality(Creators) = 1
              /\ \A p \in Creators : ~inflight[p].found /\ ~inflight[p].late

\* Both calls found no table, both have returned, and the one that came second
\* with its CREATE TABLE returned an error before any of its index statements.
C28_Witness ==
    /\ \A p \in Procs : inflight[p].pc = "returned" /\ ~inflight[p].found
    /\ \E p \in Procs : /\ inflight[p].late
                        /\ inflight[p].err
                        /\ Len(inflight[p].issued) = 1
                        /\ Len(tbl.indexes) > 0

\* One call began after the other had returned, and issued no CREATE TABLE.
C28_WitnessSerial ==
    /\ \A p \in Procs : inflight[p].pc = "returned" /\ inflight[p].serial
    /\ Cardinality(Creators) = 1

-----------------------------------------------------------------------------
(* Update, from its argument to its statement *)

\* Update returns an error before it has a statement to execute: the argument
\* is no struct, the Table has no primary-key column, a primary-key column has
\* no field in the argument, or no other column has one.
RaisedBeforeExec(t, dst, updateFunc) ==
    \/ updateFunc = "fails"
    \/ ~dst.isStruct
    \/ Len(PrimaryColumns(t)) = 0
    \/ \E n \in 1..Len(t.columns) :
          t.columns[n].isPrimaryKey /\ FindField(dst, t.columns[n].name) = ""
    \/ ~\E n \in 1..Len(t.columns) :
          /\ ~t.columns[n].isPrimaryKey
          /\ ~IsAutoIncrement(t.columns[n])
          /\ FindField(dst, t.columns[n].name) # ""

\* What C29 says of one Update call.
UpdateAsClaimed ==
    LET early == RaisedBeforeExec(tbl, call'.dst, call'.updateFunc) IN
    /\ Len(log') <= 1
    /\ call'.invoked = (call'.updateFunc # "nil")
    /\ early => (call'.err /\ log' = <<>> /\ rows' = rows)
    /\ log' # <<>> =>
          LET r == ExecUpdate(db, live, rows, log'[1]) IN
          (r.ok /\ r.affected = 0 /\ db.canRows) => call'.err

\* C29: every Update call issues at most one statement, and none when it
\* returns an error raised before execution; updateFunc, when given, is called
\* once, also when one of those errors is returned; and an executed statement
\* that affected no row makes Update return an error when the dialect reports
\* the rows affected.
C29_UpdateChecks ==
    [][call'.name = "Update" => UpdateAsClaimed]_vars

\* C29, for a dialect whose CanUpdate() is true: the same of every Update call
\* that has passed the CanUpdate gate, and such a call issues its statement
\* when none of those errors is raised.
C29_UpdateChecksPastGate ==
    [][(call'.name = "Update" /\ db.canUpdate) =>
          /\ UpdateAsClaimed
          /\ ~RaisedBeforeExec(tbl, call'.dst, call'.updateFunc) => Len(log') = 1]_vars

\* Update called updateFunc and returned the error for a primary-key column
\* that has no field in the argument, without a statement.
C29_Witness ==
    /\ call.name = "Update"
    /\ db.canUpdate
    /\ call.updateFunc = "ok"
    /\ call.invoked
    /\ call.err
    /\ log = <<>>
    /\ call.dst.isStruct
    /\ \E n \in 1..Len(tbl.columns) :
          tbl.columns[n].isPrimaryKey /\ FindField(call.dst, tbl.columns[n].name) = ""

\* Update executed its statement, no row was affected, and it returned an
\* error under a dialect that reports the rows affected.
C29_WitnessNoRows ==
    /\ call.name = "Update"
    /\ db.canRows
    /\ Len(log) = 1
    /\ call.err
    /\ live.exists
    /\ rows = <<>>

====
